---- MODULE Spec2Model ----
(***************************************************************************)
(* Diagram compile cache and output sync of tideflow-md-to-pdf             *)
(* (src-tauri/src/tikz.rs), with the exclusive lock its caller holds       *)
(* (src-tauri/src/image_export.rs).                                        *)
(*                                                                         *)
(* The file system is modelled by four maps: the cache directory           *)
(* (tikz-cache/<key>.<ext>), the diagram output directory (tikz/...), and  *)
(* the two work files of compile_tex (tikz-work/<key>.tex and              *)
(* tikz-work/out/<key>.pdf).  Each process walks prepare_tikz_assets one   *)
(* file-system step at a time.                                             *)
(*                                                                         *)
(* The markdown preprocessor (src-tauri/src/preprocessor.rs) is modelled   *)
(* on texts that are sequences of one-character strings with 0-based byte  *)
(* offsets: the block events of the markdown parser, inject_anchors,       *)
(* inject_tikz_blocks and the fence info parser parse_tikz_fence.          *)
(***************************************************************************)
EXTENDS Integers, Sequences, FiniteSets, TLC

\* ------------------------------------------------------------------ bounds
MaxBlocks == 2      \* longest block list given to one run
MaxRuns == 2        \* runs of prepare_tikz_assets in one behaviour
MaxDocBlocks == 3   \* most blocks in one markdown document
MaxOptions == 2     \* most key=value tokens in one fence info string

\* ------------------------------------------------------------- input sets
Procs == {1, 2}
Bytes == {1, 2}
Diagrams == {<<1>>, <<1, 2>>}
\* Option<String>: None is <<>>, Some(s) is <<s>>
None == <<>>
Some(s) == <<s>>
KeyPreambles == {None, Some(<<>>), Some(<<2>>)}
Formats == {"png", "svg"}
Scales == {None, Some("2")}

\* --------------------------------------------------------------- the block
\* TikzBlockMeta as tikz.rs reads it (id, diagram, preamble, asset_extension,
\* asset_path) with the options of the spec's DiagramOptions (scale, format).
\* The extension follows the requested format and the output path is the
\* block's own file under the diagram output directory.
asset_extension_of(format) == IF format = "svg" THEN "svg" ELSE "png"

asset_path_of(id, ext) == <<"tikz", id, ext>>

TikzBlockMeta(id, diagram, preamble, format, scale) ==
    [id |-> id, diagram |-> diagram, preamble |-> preamble, format |-> format,
     scale |-> scale,
     asset_extension |-> asset_extension_of(format),
     asset_path |-> asset_path_of(id, asset_extension_of(format))]

\* ---------------------------------------------------------------- cache_key
\* The bytes fed to the hasher: the diagram, then the preamble when present.
hasher_input(block) ==
    block.diagram \o (IF block.preamble # None THEN block.preamble[1] ELSE <<>>)

hasher_input_with_id(block) == <<block.id>> \o hasher_input(block)

\* SHA-256 followed by hex::encode, as a collision-free digest of the byte
\* sequence: the bijective base-(|Bytes|+1) numeral of the sequence.
RECURSIVE hex_digest(_)
hex_digest(bytes) ==
    IF bytes = <<>> THEN 0
    ELSE hex_digest(SubSeq(bytes, 1, Len(bytes) - 1)) * (Cardinality(Bytes) + 1)
         + bytes[Len(bytes)]

cache_key_with_id(block) == hex_digest(hasher_input_with_id(block))

cache_key(block) == hex_digest(hasher_input(block))

\* ------------------------------------------------------------- run inputs
\* Blocks of one document: the id is the position of the fence.  The second
\* and the third source feed the hasher the same bytes.
RunSources == {<<<<1>>, None>>, <<<<1, 2>>, None>>, <<<<1>>, Some(<<2>>)>>}
RunBlockAt(id) == {TikzBlockMeta(id, s[1], s[2], "png", None) : s \in RunSources}

RECURSIVE BlockLists(_)
BlockLists(n) ==
    IF n = 0 THEN {<<>>}
    ELSE BlockLists(n - 1) \cup
         {Append(l, b) : l \in {x \in BlockLists(n - 1) : Len(x) = n - 1},
                         b \in RunBlockAt(n)}

AllRunBlocks == UNION {RunBlockAt(id) : id \in 1..MaxBlocks}
Keys == {cache_key(b) : b \in AllRunBlocks}
\* cache_dir.join(format!("{}.{}", key, block.asset_extension)) (line 45)
file_of(b) == <<cache_key(b), b.asset_extension>>
CacheFiles == {file_of(b) : b \in AllRunBlocks}
OutPaths == {b.asset_path : b \in AllRunBlocks}

\* ------------------------------------------------------------ file contents
NoFile == <<>>
\* An artifact: the PNG rasterized from the PDF of a document kind
\* ("doc": the diagram document, "err": the error document) for a key.
Artifact(kind, key) == <<IF kind = "doc" THEN "real" ELSE "fallback", key>>
\* A file that File::create has made and write_all has not filled.
Partial(key) == <<"partial", key>>

\* ------------------------------------------------------ preprocessor: text
\* Text is a sequence of one-character strings; offsets are 0-based byte
\* offsets as in the source (every character used here is one byte).
Slice(s, a, b) == SubSeq(s, a + 1, b)
StartsWith(s, pre) == Len(s) >= Len(pre) /\ SubSeq(s, 1, Len(pre)) = pre
EndsWith(s, suf) == Len(s) >= Len(suf) /\ SubSeq(s, Len(s) - Len(suf) + 1, Len(s)) = suf
Contains(s, pat) == \E i \in 1..(Len(s) - Len(pat) + 1) : SubSeq(s, i, i + Len(pat) - 1) = pat

RECURSIVE SortedSeq(_)
SortedSeq(S) ==
    IF S = {} THEN <<>>
    ELSE LET m == CHOOSE x \in S : \A y \in S : x <= y
         IN  <<m>> \o SortedSeq(S \ {m})

Digits == <<"0", "1", "2", "3", "4", "5", "6", "7", "8", "9">>
\* format!("{}", n) of an unsigned integer
RECURSIVE Decimal(_)
Decimal(n) == IF n < 10 THEN <<Digits[n + 1]>> ELSE Decimal(n \div 10) \o <<Digits[(n % 10) + 1]>>

\* ------------------------------------------- preprocessor: markdown parser
\* The event stream of Parser::new_ext(..).into_offset_iter(), for the
\* constructs the documents below are made of: blank lines, ATX headings,
\* paragraphs, block quotes of paragraphs (with lazy continuation), bullet
\* lists of one-line items (tight or loose), pipe tables, code fences
\* and HTML comment blocks. An event is a record of the tag of a Start
\* event and the byte range of its element; an HTML block is an
\* Event::Html, recorded under the tag "Html".
LineStarts(t) == IF t = <<>> THEN {} ELSE {0} \cup {i \in 1..(Len(t) - 1) : t[i] = "\n"}
LineEnd(t, s) ==
    IF \E j \in (s + 1)..Len(t) : t[j] = "\n"
    THEN (CHOOSE j \in (s + 1)..Len(t) :
              t[j] = "\n" /\ \A k \in (s + 1)..(j - 1) : t[k] # "\n") - 1
    ELSE Len(t)
SourceLines(t) ==
    LET st == SortedSeq(LineStarts(t))
    IN  [i \in 1..Len(st) |-> [s |-> st[i], e |-> LineEnd(t, st[i])]]
LineText(t, L) == Slice(t, L.s, L.e)
LineNext(t, L) == IF L.e < Len(t) THEN L.e + 1 ELSE Len(t)

\* a code fence; the tilde form, which the parser treats like the backtick
\* form
FenceMark == <<"~", "~", "~">>
HtmlClose == <<"-", "-", ">">>

Kind(c) ==
    CASE c = <<>> -> "blank"
      [] StartsWith(c, FenceMark) -> "fence"
      [] StartsWith(c, <<"<", "!", "-", "-">>) -> "html"
      [] StartsWith(c, <<"#", " ">>) -> "heading"
      [] StartsWith(c, <<">">>) -> "quote"
      [] StartsWith(c, <<"-", " ">>) -> "item"
      [] StartsWith(c, <<"|">>) -> "row"
      [] OTHER -> "text"
KindAt(t, ls, i) == IF i <= Len(ls) THEN Kind(LineText(t, ls[i])) ELSE "eof"

Ev(tag, s, e) == [tag |-> tag, start |-> s, end |-> e, info |-> <<>>, content |-> <<>>]

\* the closing fence of the fence opened on line i, or Len(ls) + 1
RECURSIVE FenceClose(_, _, _)
FenceClose(t, ls, j) ==
    IF j > Len(ls) \/ LineText(t, ls[j]) = FenceMark THEN j
    ELSE FenceClose(t, ls, j + 1)

\* the line on which the HTML comment opened on line i ends
RECURSIVE HtmlEnd(_, _, _)
HtmlEnd(t, ls, j) ==
    IF j >= Len(ls) \/ Contains(LineText(t, ls[j]), HtmlClose) THEN j
    ELSE HtmlEnd(t, ls, j + 1)

RECURSIVE ParaEnd(_, _, _)
ParaEnd(t, ls, i) ==
    IF KindAt(t, ls, i + 1) \in {"text", "row"} THEN ParaEnd(t, ls, i + 1) ELSE i

QuoteInnerOff(c) == IF Len(c) >= 2 /\ c[2] = " " THEN 2 ELSE 1
QuoteInner(c) == Slice(c, QuoteInnerOff(c), Len(c))

RECURSIVE QuoteEnd(_, _, _, _)
QuoteEnd(t, ls, i, open) ==
    LET k == KindAt(t, ls, i + 1)
    IN  IF k = "quote"
        THEN QuoteEnd(t, ls, i + 1, QuoteInner(LineText(t, ls[i + 1])) # <<>>)
        ELSE IF k \in {"text", "row"} /\ open THEN QuoteEnd(t, ls, i + 1, TRUE)
        ELSE i

RECURSIVE QuoteParas(_, _, _, _, _)
QuoteParas(t, ls, k, j, open) ==
    IF k > j THEN <<>>
    ELSE LET c == LineText(t, ls[k])
         IN  IF Kind(c) # "quote" THEN QuoteParas(t, ls, k + 1, j, TRUE)
             ELSE IF QuoteInner(c) = <<>> THEN QuoteParas(t, ls, k + 1, j, FALSE)
             ELSE IF open THEN QuoteParas(t, ls, k + 1, j, TRUE)
             ELSE <<Ev("Paragraph", ls[k].s + QuoteInnerOff(c), LineNext(t, ls[ParaEnd(t, ls, k)]))>>
                  \o QuoteParas(t, ls, k + 1, j, TRUE)

RECURSIVE ListEnd(_, _, _)
ListEnd(t, ls, i) ==
    LET k == KindAt(t, ls, i + 1)
    IN  IF k \in {"item", "text", "row"} THEN ListEnd(t, ls, i + 1)
        ELSE IF k = "blank" /\ KindAt(t, ls, i + 2) = "item" THEN ListEnd(t, ls, i + 2)
        ELSE i

RECURSIVE ListItems(_, _, _, _, _)
ListItems(t, ls, k, j, loose) ==
    IF k > j THEN <<>>
    ELSE IF KindAt(t, ls, k) # "item" THEN ListItems(t, ls, k + 1, j, loose)
    ELSE <<Ev("Item", ls[k].s, LineNext(t, ls[k]))>>
         \o (IF loose THEN <<Ev("Paragraph", ls[k].s + 2, LineNext(t, ls[k]))>> ELSE <<>>)
         \o ListItems(t, ls, k + 1, j, loose)

RECURSIVE TableEnd(_, _, _)
TableEnd(t, ls, i) == IF KindAt(t, ls, i + 1) = "row" THEN TableEnd(t, ls, i + 1) ELSE i

TableCells(t, L) ==
    LET c == LineText(t, L)
        at == SortedSeq({p \in 1..(Len(c) - 1) : c[p] = "|"})
    IN  [n \in 1..Len(at) |-> Ev("TableCell", L.s + at[n], L.s + at[n] + 1)]

RECURSIVE TableRows(_, _, _, _)
TableRows(t, ls, k, j) ==
    IF k > j THEN <<>>
    ELSE <<Ev("TableRow", ls[k].s, LineNext(t, ls[k]))>> \o TableCells(t, ls[k])
         \o TableRows(t, ls, k + 1, j)

RECURSIVE Blocks(_, _, _)
Blocks(t, ls, i) ==
    IF i > Len(ls) THEN <<>>
    ELSE LET c == LineText(t, ls[i])
             k == Kind(c)
         IN  CASE k = "blank" -> Blocks(t, ls, i + 1)
               [] k = "fence" ->
                    LET j == FenceClose(t, ls, i + 1)
                        closed == j <= Len(ls)
                    IN  <<[tag |-> "CodeBlock",
                           start |-> ls[i].s,
                           end |-> IF closed THEN LineNext(t, ls[j]) ELSE Len(t),
                           info |-> Slice(c, Len(FenceMark), Len(c)),
                           content |-> Slice(t, LineNext(t, ls[i]),
                                             IF closed THEN ls[j].s ELSE Len(t))]>>
                        \o Blocks(t, ls, j + 1)
               [] k = "html" ->
                    LET j == HtmlEnd(t, ls, i)
                    IN  <<Ev("Html", ls[i].s, LineNext(t, ls[j]))>> \o Blocks(t, ls, j + 1)
               [] k = "heading" ->
                    <<Ev("Heading", ls[i].s, LineNext(t, ls[i]))>> \o Blocks(t, ls, i + 1)
               [] k = "quote" ->
                    LET j == QuoteEnd(t, ls, i, QuoteInner(c) # <<>>)
                    IN  <<Ev("BlockQuote", ls[i].s, LineNext(t, ls[j]))>>
                        \o QuoteParas(t, ls, i, j, FALSE) \o Blocks(t, ls, j + 1)
               [] k = "item" ->
                    LET j == ListEnd(t, ls, i)
                        loose == \E n \in i..j : KindAt(t, ls, n) = "blank"
                    IN  <<Ev("List", ls[i].s, LineNext(t, ls[j]))>>
                        \o ListItems(t, ls, i, j, loose) \o Blocks(t, ls, j + 1)
               [] k = "row" /\ i < Len(ls) /\ StartsWith(LineText(t, ls[i + 1]), <<"|",
                       "-">>) ->
                    LET j == TableEnd(t, ls, i + 1)
                    IN  <<Ev("Table", ls[i].s, LineNext(t, ls[j])),
                          Ev("TableHead", ls[i].s, LineNext(t, ls[i]))>>
                        \o TableCells(t, ls[i]) \o TableRows(t, ls, i + 2, j)
                        \o Blocks(t, ls, j + 1)
               [] OTHER ->
                    LET j == ParaEnd(t, ls, i)
                    IN  <<Ev("Paragraph", ls[i].s, LineNext(t, ls[j]))>>
                        \o Blocks(t, ls, j + 1)

Events(t) == Blocks(t, SourceLines(t), 1)

\* ---------------------------------------------- preprocessor: inject_anchors
is_block_level(tag) ==
    tag \in {"Paragraph", "Heading", "BlockQuote", "CodeBlock", "List", "Item",
             "FootnoteDefinition", "Table", "TableHead", "TableRow", "TableCell"}

\* offset_to_line_column: 1-based line and column of a byte offset
offset_to_line_column(source, offset) ==
    LET nl == {i \in 1..offset : source[i] = "\n"}
        last == IF nl = {} THEN 0 ELSE CHOOSE i \in nl : \A j \in nl : j <= i
    IN  <<Cardinality(nl) + 1, offset - last + 1>>

LabelOpen == <<"<", "!", "-", "-", "r", "a", "w", "-", "t", "y", "p", "s", "t", " ", "#", "l",
        "a", "b", "e", "l", "(", "\"">>
LabelClose == <<"\"", ")", " ", "-", "-", ">", "\n">>

\* build_anchor_markup: the directive, on a line of its own
build_anchor_markup(source, offset, id) ==
    (IF offset > 0 /\ source[offset] # "\n" THEN <<"\n">> ELSE <<>>)
        \o LabelOpen \o id \o LabelClose

doc_id == <<"t", "f", "-", "d", "o", "c", "-", "s", "t", "a", "r", "t">>
\* an id made of the line number alone, for comparison
anchor_id_by_line(markdown, start, count) ==
    <<"t", "f", "-">> \o Decimal(offset_to_line_column(markdown, start)[1])
\* format!("tf-{}-{}", range.start, anchors.len())
anchor_id(markdown, start, count) ==
    <<"t", "f", "-">> \o Decimal(start) \o <<"-">> \o Decimal(count)

\* the line holding an offset starts with '>' after leading white space
\* (lines 446-459); first the check left out
OnQuoteLine_never(markdown, offset) == FALSE
OnQuoteLine(markdown, offset) ==
    LET before == {i \in 1..offset : markdown[i] = "\n"}
        line_start == IF before = {} THEN 0 ELSE CHOOSE i \in before : \A j \in before : j <= i
        first_line == Slice(markdown, line_start, LineEnd(markdown, line_start))
        ink == {i \in 1..Len(first_line) : first_line[i] \notin {" ", "\t"}}
    IN  ink # {} /\ first_line[CHOOSE i \in ink : \A j \in ink : i <= j] = ">"

\* the tags passed over (lines 427-442); first the block quote alone
SkippedTags_quoteOnly == {"BlockQuote"}
SkippedTags == {"BlockQuote", "Table", "TableHead", "TableRow", "TableCell"}

Anchor(id, markdown, offset) ==
    [id |-> id,
     offset |-> offset,
     line |-> offset_to_line_column(markdown, offset)[1],
     column |-> offset_to_line_column(markdown, offset)[2]]

\* the claim on an offset: HashSet::insert returns false for a member
Claimed_never(seen, offset) == FALSE
Claimed(seen, offset) == offset \in seen

\* the state before the loop with offset 0 left unclaimed, for comparison
AnchorsStart_unclaimed(markdown) ==
    [anchors |-> <<Anchor(doc_id, markdown, 0)>>,
     insertions |-> <<<<0, build_anchor_markup(markdown, 0, doc_id)>>>>,
     seen |-> {}]
\* the state before the loop: the document-start anchor at offset 0
AnchorsStart(markdown) ==
    [anchors |-> <<Anchor(doc_id, markdown, 0)>>,
     insertions |-> <<<<0, build_anchor_markup(markdown, 0, doc_id)>>>>,
     seen |-> {0}]

\* one turn of the loop over the events (lines 421-475)
AnchorStep(markdown, st, ev) ==
    IF \/ ev.tag = "Html"
       \/ ~is_block_level(ev.tag)
       \/ ev.tag \in SkippedTags
       \/ OnQuoteLine(markdown, ev.start)
       \/ Claimed(st.seen, ev.start)
    THEN st
    ELSE LET id == anchor_id(markdown, ev.start, Len(st.anchors))
         IN  [anchors |-> Append(st.anchors, Anchor(id, markdown, ev.start)),
              insertions |-> Append(st.insertions,
                                    <<ev.start, build_anchor_markup(markdown, ev.start, id)>>),
              seen |-> st.seen \cup {ev.start}]

RECURSIVE AnchorLoop(_, _, _)
AnchorLoop(markdown, st, evs) ==
    IF evs = <<>> THEN st
    ELSE AnchorLoop(markdown, AnchorStep(markdown, st, Head(evs)), Tail(evs))

\* insertions.sort_by_key(|(offset, _)| *offset): a stable sort
RECURSIVE InsertSorted(_, _)
InsertSorted(sorted, x) ==
    IF sorted = <<>> THEN <<x>>
    ELSE IF x[1] < Head(sorted)[1] THEN <<x>> \o sorted
    ELSE <<Head(sorted)>> \o InsertSorted(Tail(sorted), x)
RECURSIVE sort_by_offset(_)
sort_by_offset(ins) ==
    IF ins = <<>> THEN <<>>
    ELSE InsertSorted(sort_by_offset(SubSeq(ins, 1, Len(ins) - 1)), ins[Len(ins)])

insert_str(s, offset, snippet) ==
    Slice(s, 0, offset) \o snippet \o Slice(s, offset, Len(s))

\* the insertions applied first to last, each at its own offset
RECURSIVE apply_insertions_forward(_, _)
apply_insertions_forward(output, ins) ==
    IF ins = <<>> THEN output
    ELSE apply_insertions_forward(insert_str(output, Head(ins)[1], Head(ins)[2]), Tail(ins))

\* for (offset, snippet) in insertions.into_iter().rev()
RECURSIVE apply_insertions(_, _)
apply_insertions(output, ins) ==
    IF ins = <<>> THEN output
    ELSE apply_insertions(insert_str(output, ins[Len(ins)][1], ins[Len(ins)][2]),
                          SubSeq(ins, 1, Len(ins) - 1))

\* inject_anchors; `insertions` is the list the function builds and drops
inject_anchors(markdown) ==
    LET st == AnchorLoop(markdown, AnchorsStart(markdown), Events(markdown))
        ins == sort_by_offset(st.insertions)
    IN  [markdown |-> apply_insertions(markdown, ins),
         anchors |-> st.anchors,
         insertions |-> ins]

\* ------------------------------------------- preprocessor: parse_tikz_fence
WhiteSpace == {" ", "\t", "\n", "\r"}

RECURSIVE trim_start_matches(_, _)
trim_start_matches(s, set) ==
    IF s # <<>> /\ Head(s) \in set THEN trim_start_matches(Tail(s), set) ELSE s
RECURSIVE trim_end_matches(_, _)
trim_end_matches(s, set) ==
    IF s # <<>> /\ s[Len(s)] \in set THEN trim_end_matches(SubSeq(s, 1, Len(s) - 1), set) ELSE s
trim_matches(s, set) == trim_end_matches(trim_start_matches(s, set), set)
trim(s) == trim_matches(s, WhiteSpace)

\* the case of every letter kept, for comparison
keep_ascii_case(s) == s

to_ascii_lowercase(s) ==
    LET upper == <<"A", "B", "C", "D", "E", "F", "G", "H", "I", "J", "K", "L", "M",
                   "N", "O", "P", "Q", "R", "S", "T", "U", "V", "W", "X", "Y", "Z">>
        lower == <<"a", "b", "c", "d", "e", "f", "g", "h", "i", "j", "k", "l", "m",
                   "n", "o", "p", "q", "r", "s", "t", "u", "v", "w", "x", "y", "z">>
    IN  [i \in 1..Len(s) |->
            IF \E n \in DOMAIN upper : upper[n] = s[i]
            THEN lower[CHOOSE n \in DOMAIN upper : upper[n] = s[i]]
            ELSE s[i]]

\* one turn of tokenize_fence_info's loop from character i on; q is the
\* open quote character, "" outside quotes
RECURSIVE TokenizeFrom(_, _, _, _, _)
TokenizeFrom(input, i, tokens, current, q) ==
    LET push == IF current # <<>> THEN Append(tokens, trim(current)) ELSE tokens
    IN  IF i > Len(input) THEN push
        ELSE LET ch == input[i]
             IN  CASE ch \in {"'", "\""} ->
                        TokenizeFrom(input, i + 1, tokens, Append(current, ch),
                                     IF q = "" THEN ch ELSE IF ch = q THEN "" ELSE q)
                   [] ch = "\\" ->
                        IF i < Len(input)
                        THEN TokenizeFrom(input, i + 2, tokens, current \o <<ch, input[i + 1]>>, q)
                        ELSE TokenizeFrom(input, i + 1, tokens, Append(current, ch), q)
                   [] (ch \in WhiteSpace \/ ch \in {",", ";"}) /\ q = "" ->
                        TokenizeFrom(input, i + 1, push, <<>>, q)
                   [] OTHER ->
                        TokenizeFrom(input, i + 1, tokens, Append(current, ch), q)

tokenize_fence_info(input) == TokenizeFrom(input, 1, <<>>, <<>>, "")

RECURSIVE unescape_quoted(_)
unescape_quoted(input) ==
    IF input = <<>> THEN <<>>
    ELSE IF Head(input) # "\\" THEN <<Head(input)>> \o unescape_quoted(Tail(input))
    ELSE IF Len(input) = 1 THEN <<"\\">>
    ELSE LET next == input[2]
             rest == unescape_quoted(SubSeq(input, 3, Len(input)))
         IN  CASE next = "n" -> <<"\n">> \o rest
               [] next = "r" -> <<"\r">> \o rest
               [] next = "t" -> <<"\t">> \o rest
               [] next \in {"\\", "\"", "'"} -> <<next>> \o rest
               [] OTHER -> <<"\\", next>> \o rest

\* every value taken as a bare one, for comparison
normalize_option_value_bare(raw) == Some(trim_matches(trim(raw), {",", ";"}))

normalize_option_value(raw) ==
    LET trimmed == trim_matches(trim(raw), {",", ";"})
        inner == SubSeq(trimmed, 2, Len(trimmed) - 1)
    IN  IF trimmed = <<>> THEN Some(<<>>)
        ELSE IF Len(trimmed) >= 2 /\ Head(trimmed) = "\"" /\ trimmed[Len(trimmed)] = "\""
        THEN Some(unescape_quoted(inner))
        ELSE IF Len(trimmed) >= 2 /\ Head(trimmed) = "'" /\ trimmed[Len(trimmed)] = "'"
        THEN Some(unescape_quoted(inner))
        ELSE Some(trimmed)

Punctuation == {",", "{", "}", "[", "]", "(", ")", ";"}

\* str::split_once('='): <<key, value>>, or <<>> without a '='
split_once_eq(s) ==
    IF \E i \in 1..Len(s) : s[i] = "="
    THEN LET i == CHOOSE i \in 1..Len(s) : s[i] = "=" /\ \A j \in 1..(i - 1) : s[j] # "="
         IN  <<SubSeq(s, 1, i - 1), SubSeq(s, i + 1, Len(s))>>
    ELSE <<>>

NoOptions == [scale |-> None, preamble |-> None, format |-> None]

\* the loop over the tokens after the language (lines 148-180)
RECURSIVE FenceOptions(_, _)
FenceOptions(tokens, options) ==
    IF tokens = <<>> THEN options
    ELSE LET kv == split_once_eq(trim(Head(tokens)))
             key == to_ascii_lowercase(trim_matches(trim(kv[1]), Punctuation))
             value == normalize_option_value(kv[2])
             next == IF kv = <<>> THEN options
                     ELSE CASE key = <<"s", "c", "a", "l",
                             "e">> -> [options EXCEPT !.scale = value]
                            [] key = <<"p", "r", "e", "a", "m", "b", "l",
                                    "e">> -> [options EXCEPT !.preamble = value]
                            [] key = <<"f", "o", "r", "m", "a",
                                    "t">> -> [options EXCEPT !.format = value]
                            [] OTHER -> options
         IN  FenceOptions(Tail(tokens), next)

\* parse_tikz_fence: None, or Some(options)
parse_tikz_fence(info) ==
    LET tokens == tokenize_fence_info(trim(info))
    IN  IF trim(info) = <<>> \/ tokens = <<>> THEN None
        ELSE IF to_ascii_lowercase(trim_matches(Head(tokens), Punctuation)) # <<"t", "i", "k",
                "z">> THEN None
        ELSE Some(FenceOptions(Tail(tokens), NoOptions))

\* ------------------------------------------ preprocessor: inject_tikz_blocks
\* escape_typst_string with the line breaks left alone, for comparison
RECURSIVE escape_typst_string_inline(_)
escape_typst_string_inline(input) ==
    IF input = <<>> THEN <<>>
    ELSE (CASE Head(input) \in {"\\", "\""} -> <<"\\", Head(input)>>
            [] Head(input) = "\t" -> <<"\\", "t">>
            [] OTHER -> <<Head(input)>>) \o escape_typst_string_inline(Tail(input))

RECURSIVE escape_typst_string(_)
escape_typst_string(input) ==
    IF input = <<>> THEN <<>>
    ELSE (CASE Head(input) \in {"\\", "\""} -> <<"\\", Head(input)>>
            [] Head(input) = "\n" -> <<"\\", "n">>
            [] Head(input) = "\r" -> <<"\\", "r">>
            [] Head(input) = "\t" -> <<"\\", "t">>
            [] OTHER -> <<Head(input)>>) \o escape_typst_string(Tail(input))

\* str::parse::<f32> then format!("{}", number), for numerals made of
\* digits with an optional fraction (short enough to be exact in an f32):
\* <<>> when the text is no such numeral
ParseFormatF32(s) ==
    LET dots == {i \in 1..Len(s) : s[i] = "."}
        dot == IF dots = {} THEN Len(s) + 1 ELSE CHOOSE i \in dots : TRUE
        int == SubSeq(s, 1, dot - 1)
        frac == SubSeq(s, dot + 1, Len(s))
        digits == {Digits[n] : n \in 1..10}
        int1 == trim_start_matches(int, {"0"})
        frac1 == trim_end_matches(frac, {"0"})
    IN  IF \/ Cardinality(dots) > 1
           \/ int \o frac = <<>>
           \/ \E i \in 1..Len(int \o frac) : (int \o frac)[i] \notin digits
        THEN <<>>
        ELSE <<(IF int1 = <<>> THEN <<"0">> ELSE int1)
               \o (IF frac1 = <<>> THEN <<>> ELSE <<".">> \o frac1)>>

format_scale_value(raw) ==
    LET trimmed == trim(raw)
        number == ParseFormatF32(trimmed)
        formatted == number[1]
        popped == trim_end_matches(formatted, {"0"})
    IN  IF trimmed = <<>> THEN <<"n", "o", "n", "e">>
        ELSE IF to_ascii_lowercase(trimmed) = <<"n", "o", "n", "e">> THEN <<"n", "o", "n", "e">>
        ELSE IF to_ascii_lowercase(trimmed) = <<"a", "u", "t", "o">> THEN <<"a", "u", "t", "o">>
        ELSE IF number # <<>>
        THEN IF \E i \in 1..Len(formatted) : formatted[i] = "."
             THEN IF popped[Len(popped)] = "." THEN popped \o <<"0">> ELSE popped
             ELSE formatted
        ELSE <<"\"">> \o escape_typst_string(trimmed) \o <<"\"">>

RECURSIVE JoinArgs(_)
JoinArgs(args) ==
    IF args = <<>> THEN <<>>
    ELSE IF Len(args) = 1 THEN args[1]
    ELSE args[1] \o <<",", " ">> \o JoinArgs(Tail(args))

build_tikz_placeholder(content, options) ==
    LET diagram == <<<<"d", "i", "a", "g", "r", "a", "m", ":", " ",
            "\"">> \o escape_typst_string(content) \o <<"\"">>>>
        scale == IF options.scale # None /\ trim(options.scale[1]) # <<>>
                 THEN <<<<"s", "c", "a", "l", "e", ":",
                         " ">> \o format_scale_value(options.scale[1])>> ELSE <<>>
        preamble == IF options.preamble # None
                    THEN <<<<"p", "r", "e", "a", "m", "b", "l", "e", ":", " ",
                            "\"">> \o escape_typst_string(options.preamble[1]) \o <<"\"">>>>
                    ELSE <<>>
        format == IF options.format # None /\ options.format[1] # <<>>
                  THEN <<<<"f", "o", "r", "m", "a", "t", ":", " ",
                          "\"">> \o escape_typst_string(options.format[1]) \o <<"\"">>>>
                  ELSE <<>>
    IN  <<"<", "!", "-", "-", "r", "a", "w", "-", "t", "y", "p", "s", "t", " ", "#", "t", "i",
            "k", "z", "_", "r", "e", "n", "d", "e", "r", "(">>
        \o JoinArgs(diagram \o scale \o preamble \o format)
        \o <<")", " ", "-", "-", ">", "\n">>

\* the replacements pushed during the scan: <<start, end, placeholder>> for
\* each fenced code block whose info parse_tikz_fence accepts (lines 68-98)
RECURSIVE Replacements(_)
Replacements(evs) ==
    IF evs = <<>> THEN <<>>
    ELSE LET e == Head(evs)
             options == parse_tikz_fence(e.info)
         IN  (IF e.tag = "CodeBlock" /\ options # None
              THEN <<<<e.start, e.end, build_tikz_placeholder(e.content, options[1])>>>>
              ELSE <<>>) \o Replacements(Tail(evs))

replace_range(s, start, end, with) == Slice(s, 0, start) \o with \o Slice(s, end, Len(s))

\* the replacements applied from the first to the last, for comparison
RECURSIVE apply_replacements_forward(_, _)
apply_replacements_forward(output, reps) ==
    IF reps = <<>> THEN output
    ELSE LET r == reps[1]
         IN  apply_replacements_forward(
                 IF r[1] <= r[2] /\ r[2] <= Len(output)
                 THEN Slice(output, 0, r[1]) \o r[3] \o Slice(output, r[2], Len(output))
                 ELSE output,
                 Tail(reps))

\* for (start, end, replacement) in replacements.into_iter().rev()
RECURSIVE apply_replacements(_, _)
apply_replacements(output, reps) ==
    IF reps = <<>> THEN output
    ELSE LET r == reps[Len(reps)]
         IN  apply_replacements(
                 IF r[1] <= r[2] /\ r[2] <= Len(output)
                 THEN replace_range(output, r[1], r[2], r[3]) ELSE output,
                 SubSeq(reps, 1, Len(reps) - 1))

inject_tikz_blocks(markdown) == apply_replacements(markdown, Replacements(Events(markdown)))

\* preprocess_markdown: the anchors are injected into the transformed text
preprocess_markdown(markdown) == inject_anchors(inject_tikz_blocks(markdown))

\* ------------------------------------------ preprocessor: the source map
\* A serde_json::Value is [t, v]: t is "object", "array", "string", "number"
\* or "null"; an object's v is the sequence of its members [k, v] in the
\* order map.iter() yields them, an array's v its elements, a string's v
\* its characters, a number's v an integer.

\* Map::get: Some(member's value), or None
map_get(map, k) ==
    IF \E i \in 1..Len(map) : map[i].k = k
    THEN Some(map[CHOOSE i \in 1..Len(map) : map[i].k = k].v)
    ELSE None

\* Iterator::find_map, given the closure's result for each item: the first Some
find_map(found) ==
    LET hits == {i \in 1..Len(found) : found[i] # None}
    IN  IF hits = {} THEN None ELSE found[CHOOSE i \in hits : \A j \in hits : i <= j]

\* str::parse::<u64>() of a digit string
RECURSIVE parse_u64(_)
parse_u64(s) ==
    IF s = <<>> \/ \E i \in 1..Len(s) : \A d \in 1..10 : Digits[d] # s[i] THEN None
    ELSE LET last == (CHOOSE d \in 1..10 : Digits[d] = s[Len(s)]) - 1
             front == SubSeq(s, 1, Len(s) - 1)
         IN  IF front = <<>> THEN Some(last) ELSE Some(parse_u64(front)[1] * 10 + last)

\* v.as_u64().or_else(|| v.as_str().and_then(|s| s.parse::<u64>().ok()))
as_u64_or_parse(v) ==
    CASE v.t = "number" -> IF v.v >= 0 THEN Some(v.v) ELSE None
      [] v.t = "string" -> parse_u64(v.v)
      [] OTHER -> None

\* v.as_f64().or_else(|| v.as_str().and_then(|s| s.parse::<f64>().ok())),
\* for whole numbers
as_f64_or_parse(v) ==
    CASE v.t = "number" -> Some(v.v)
      [] v.t = "string" -> parse_u64(v.v)
      [] OTHER -> None

\* a default of 0 whatever the caller gives, for comparison
unwrap_or_zero(opt, default) == IF opt = None THEN 0 ELSE opt[1]

unwrap_or(opt, default) == IF opt = None THEN default ELSE opt[1]

RECURSIVE find_label(_)
find_label(value) ==
    CASE value.t = "object" ->
            LET map == value.v
                label == map_get(map, "label")
                keys == <<"value", "target", "node", "fields">>
                under(i) == IF map_get(map, keys[i]) = None THEN None
                            ELSE find_label(map_get(map, keys[i])[1])
            IN  IF label # None /\ label[1].t = "string" THEN Some(label[1].v)
                ELSE find_map([i \in 1..Len(keys) |-> under(i)])
      [] value.t = "array" ->
            LET at(i) == find_label(value.v[i]) IN find_map([i \in 1..Len(value.v) |-> at(i)])
      [] OTHER -> None

\* extract_page_xy: None, or Some(<<page, x, y>>)
extract_page_xy(v) ==
    IF v.t # "object" THEN None
    ELSE LET obj == v.v
             number(o, k) == IF map_get(o, k) = None THEN None
                             ELSE as_f64_or_parse(map_get(o, k)[1])
             page == unwrap_or(IF map_get(obj, "page") = None THEN None
                               ELSE as_u64_or_parse(map_get(obj, "page")[1]), 1)
             pos == IF map_get(obj, "position") # None THEN map_get(obj, "position")
                    ELSE IF map_get(obj, "point") # None THEN map_get(obj, "point")
                    ELSE map_get(obj, "pos")
             rect == map_get(obj, "rect")
         IN  IF pos # None /\ pos[1].t = "object"
             THEN Some(<<page, unwrap_or(number(pos[1].v, "x"), 0),
                               unwrap_or(number(pos[1].v, "y"), 0)>>)
             ELSE IF rect # None /\ rect[1].t = "array" /\ Len(rect[1].v) >= 2
             THEN Some(<<page, unwrap_or(as_f64_or_parse(rect[1].v[1]), 0),
                               unwrap_or(as_f64_or_parse(rect[1].v[2]), 0)>>)
             ELSE None

RECURSIVE find_location(_)
find_location(value) ==
    CASE value.t = "object" ->
            LET map == value.v
                loc == map_get(map, "location")
                child(i) == find_location(map[i].v)
            IN  IF loc # None /\ extract_page_xy(loc[1]) # None THEN extract_page_xy(loc[1])
                ELSE IF extract_page_xy(value) # None THEN extract_page_xy(value)
                ELSE find_map([i \in 1..Len(map) |-> child(i)])
      [] value.t = "array" ->
            LET at(i) == find_location(value.v[i]) IN find_map([i \in 1..Len(value.v) |-> at(i)])
      [] OTHER -> None

PdfPosition(page, x, y) == [page |-> page, x |-> x, y |-> y]

\* the loop over the entries of the top-level array (lines 579-592)
RECURSIVE QueryLoop(_, _)
QueryLoop(entries, map) ==
    IF entries = <<>> THEN map
    ELSE LET label == find_label(Head(entries))
             found == find_location(Head(entries))
             next == IF label = None \/ ~StartsWith(label[1], <<"t", "f", "-">>) \/ found = None
                     THEN map
                     ELSE [l \in DOMAIN map \cup {label[1]} |->
                             IF l = label[1]
                             THEN PdfPosition(found[1][1], found[1][2], found[1][3])
                             ELSE map[l]]
         IN  QueryLoop(Tail(entries), next)

\* pdf_positions_from_query on the parsed value: the HashMap as a function
pdf_positions_from_query(value) ==
    IF value.t = "array" THEN QueryLoop(value.v, [l \in {} |-> None]) ELSE [l \in {} |-> None]

\* only the anchors with a rendered position, for comparison
attach_matched_positions(anchors, positions) ==
    LET matched == SelectSeq(anchors, LAMBDA a : a.id \in DOMAIN positions)
    IN  [anchors |-> [i \in 1..Len(matched) |->
            [id |-> matched[i].id,
             editor |-> [offset |-> matched[i].offset, line |-> matched[i].line,
                         column |-> matched[i].column],
             pdf |-> Some(positions[matched[i].id])]]]

\* attach_pdf_positions: the SourceMapPayload
attach_pdf_positions(anchors, positions) ==
    [anchors |-> [i \in 1..Len(anchors) |->
        [id |-> anchors[i].id,
         editor |-> [offset |-> anchors[i].offset, line |-> anchors[i].line,
                     column |-> anchors[i].column],
         pdf |-> IF anchors[i].id \in DOMAIN positions
                 THEN Some(positions[anchors[i].id]) ELSE None]]]

\* ------------------------------------------------ tikz.rs: truncate_message
\* A message is its UTF-8 bytes: an ASCII byte is its character, the bytes
\* of a longer character are named by their hex value ("C3" "A9" is the
\* two-byte e-acute, "E2" "80" "A6" the three-byte ellipsis).
MAX_LEN == 240

\* truncate_message: [panicked, value].  String::truncate panics when the
\* new length is not on a character boundary.
truncate_message(message) ==
    LET trimmed == trim(message)
        result == [i \in 1..Len(trimmed) |-> IF trimmed[i] = "\n" THEN " " ELSE trimmed[i]]
        ContinuationBytes == {"A9", "80", "A6"}
        is_char_boundary(s, n) ==
            n = 0 \/ n = Len(s) \/ (n < Len(s) /\ s[n + 1] \notin ContinuationBytes)
    IN  IF Len(result) > MAX_LEN
        THEN IF is_char_boundary(result, MAX_LEN)
             THEN [panicked |-> FALSE,
                   value |-> SubSeq(result, 1, MAX_LEN) \o <<"E2", "80", "A6">>]
             ELSE [panicked |-> TRUE, value |-> <<>>]
        ELSE [panicked |-> FALSE, value |-> result]


VARIABLES
    cache,      \* tikz-cache: CacheFiles -> artifact or NoFile
    outdir,     \* tikz output directory: OutPaths -> artifact or NoFile
    texf,       \* tikz-work/<key>.tex: Keys -> "none" | "doc" | "err"
    pdff,       \* tikz-work/out/<key>.pdf: Keys -> "none" | "doc" | "err"
    lock,       \* IMAGE_EXPORT_MUTEX: 0 (free) or the holder
    pc,         \* position of each process in prepare_tikz_assets
    blocks,     \* the block list of each process's run
    idx,        \* loop index (1-based) into blocks
    phase,      \* "real" (compile_block) or "fallback" (build_error_artifact)
    child,      \* the spawned compiler: "none" | "exit0" | "exit1" | "hung"
    bytes,      \* bytes in hand: "none" | "doc" | "err"
    active,     \* active_outputs
    result,     \* "none" | "ok" | "setup_err" | "fallback_err" | "io_err"
    failed,     \* history: compile_block failed for the current block
    writes,     \* history: fs::write calls per cache file (saturating)
    runs,       \* runs started so far
    keyIn,      \* inputs of the key computation
    keyOut,     \* its outputs
    ppIn,       \* input of the preprocessor: markdown text or fence info
    ppOut       \* what the preprocessor function applied to it returned

vars == <<cache, outdir, texf, pdff, lock, pc, blocks, idx, phase, child, bytes,
          active, result, failed, writes, runs, keyIn, keyOut,
          ppIn, ppOut>>

fsVars == <<cache, outdir, texf, pdff>>
keyVars == <<keyIn, keyOut>>
ppVars == <<ppIn, ppOut>>

\* ------------------------------------------------------------------ helpers
cur(p) == blocks[p][idx[p]]
key(p) == cache_key(cur(p))
cache_file(p) == file_of(cur(p))
dest_path(p) == cur(p).asset_path

Running(p) == pc[p] \notin {"idle", "done"}

\* `!cache_file.exists()` is what sends a block to the compiler (line 46)
CacheHit_never(c, f) == FALSE

\* only a real artifact taken as a hit, for comparison
CacheHit_realOnly(c, f) == c[f] # NoFile /\ c[f][1] = "real"

CacheHit(c, f) == c[f] # NoFile

\* The document compile_tex is given: compile_block's diagram document, or
\* build_error_artifact's error document.
DocOf(ph) == IF ph = "real" THEN "doc" ELSE "err"

\* The files the stale-file sweep removes: regular files of the output
\* directory that are not in active_outputs (lines 86-92).
StaleOutputs_all(o, act) == {q \in DOMAIN o : o[q] # NoFile}

StaleOutputs(o, act) == {q \in DOMAIN o : o[q] # NoFile /\ q \notin act}

\* The cache directory after the bytes are written to a cache file: the Ok
\* branch (line 49) and the Err branch (line 66) both write.
WrittenCache_okOnly(c, f, ph, art) == IF ph = "fallback" THEN c ELSE [c EXCEPT ![f] = art]

WrittenCache(c, f, ph, art) == [c EXCEPT ![f] = art]

\* What a failed step does next: a failed compile_block enters
\* build_error_artifact (lines 51-59); a failed build_error_artifact leaves
\* prepare_tikz_assets through `?` (line 65).
AfterError(ph) == IF ph = "real" THEN "tex" ELSE "done"

Fail(p) ==
    /\ pc' = [pc EXCEPT ![p] = AfterError(phase[p])]
    /\ phase' = [phase EXCEPT ![p] = "fallback"]
    /\ failed' = [failed EXCEPT ![p] = TRUE]
    /\ result' = [result EXCEPT ![p] =
                     IF AfterError(phase[p]) = "done" THEN "fallback_err" ELSE @]
    /\ child' = [child EXCEPT ![p] = "none"]
    /\ bytes' = [bytes EXCEPT ![p] = "none"]

\* ------------------------------------------------------------------- Init
InitFs ==
    /\ cache = [f \in CacheFiles |-> NoFile]
    /\ outdir = [q \in OutPaths |-> NoFile]
    /\ texf = [k \in Keys |-> "none"]
    /\ pdff = [k \in Keys |-> "none"]
    /\ writes = [f \in CacheFiles |-> 0]

InitLocals ==
    /\ phase = [p \in Procs |-> "real"]
    /\ child = [p \in Procs |-> "none"]
    /\ bytes = [p \in Procs |-> "none"]
    /\ active = [p \in Procs |-> {}]
    /\ result = [p \in Procs |-> "none"]
    /\ failed = [p \in Procs |-> FALSE]

Init ==
    /\ InitFs
    /\ InitLocals
    /\ idx = [p \in Procs |-> 0]
    /\ lock = 0
    /\ pc = [p \in Procs |-> "idle"]
    /\ blocks = [p \in Procs |-> <<>>]
    /\ runs = 0
    /\ keyIn = <<>>
    /\ keyOut = <<>>
    /\ ppIn = <<>>
    /\ ppOut = <<>>

\* ---------------------------------------------------------------- actions
\* export_as_image takes IMAGE_EXPORT_MUTEX and calls prepare_tikz_assets;
\* an empty list returns Ok at once (lines 26-28); the tool lookups and the
\* Pdfium binding may fail before any block is looked at (lines 30-35).
StartRun(p, bs, toolsOk) ==
    /\ pc[p] = "idle"
    /\ lock = 0
    /\ runs < MaxRuns
    /\ runs' = runs + 1
    /\ lock' = p
    /\ blocks' = [blocks EXCEPT ![p] = bs]
    /\ idx' = [idx EXCEPT ![p] = 1]
    /\ active' = [active EXCEPT ![p] = {}]
    /\ phase' = [phase EXCEPT ![p] = "real"]
    /\ failed' = [failed EXCEPT ![p] = FALSE]
    /\ IF bs = <<>>
       THEN /\ pc' = [pc EXCEPT ![p] = "done"]
            /\ result' = [result EXCEPT ![p] = "ok"]
       ELSE IF ~toolsOk
       THEN /\ pc' = [pc EXCEPT ![p] = "done"]
            /\ result' = [result EXCEPT ![p] = "setup_err"]
       ELSE /\ pc' = [pc EXCEPT ![p] = "check"]
            /\ result' = [result EXCEPT ![p] = "none"]
    /\ UNCHANGED <<fsVars, writes, child, bytes, keyVars, ppVars>>

\* Loop head (lines 43-47): past the last block the sweep follows; a cache
\* hit goes straight to the copy; a miss goes to compile_block.
CheckCache(p) ==
    /\ pc[p] = "check"
    /\ IF idx[p] > Len(blocks[p])
       THEN pc' = [pc EXCEPT ![p] = "gc"]
       ELSE IF CacheHit(cache, cache_file(p))
       THEN pc' = [pc EXCEPT ![p] = "rmdest"]
       ELSE pc' = [pc EXCEPT ![p] = "tex"]
    /\ phase' = [phase EXCEPT ![p] = "real"]
    /\ failed' = [failed EXCEPT ![p] = FALSE]
    /\ UNCHANGED <<fsVars, writes, lock, blocks, idx, child, bytes, active,
                   result, runs, keyVars, ppVars>>

\* compile_tex: fs::write(&tex_path, tex_source) (lines 195-196)
WriteTex(p) ==
    /\ pc[p] = "tex"
    /\ texf' = [texf EXCEPT ![key(p)] = DocOf(phase[p])]
    /\ pc' = [pc EXCEPT ![p] = "stale"]
    /\ UNCHANGED <<cache, outdir, pdff, writes, lock, blocks, idx, phase, child,
                   bytes, active, result, failed, runs, keyVars, ppVars>>

\* the compiler started with the output path left as it is, for comparison
DeleteStalePdf_skipped(p) ==
    /\ pc[p] = "stale"
    /\ pc' = [pc EXCEPT ![p] = "spawn"]
    /\ UNCHANGED <<cache, outdir, texf, pdff, writes, lock, blocks, idx, phase, child,
                   bytes, active, result, failed, runs, keyVars, ppVars>>

\* compile_tex: a PDF left at the output path is removed (lines 207-210)
DeleteStalePdf(p) ==
    /\ pc[p] = "stale"
    /\ pdff' = [pdff EXCEPT ![key(p)] = "none"]
    /\ pc' = [pc EXCEPT ![p] = "spawn"]
    /\ UNCHANGED <<cache, outdir, texf, writes, lock, blocks, idx, phase, child,
                   bytes, active, result, failed, runs, keyVars, ppVars>>

\* The compiler process (lines 212-221).  "ok": exit 0 with the PDF of the
\* .tex file it finds; "fail": non-zero exit; "nopdf": exit 0 and no PDF;
\* "hang": the process never exits.  A missing .tex file is a non-zero exit.
RunCompiler(p, outcome) ==
    /\ pc[p] = "spawn"
    /\ pc' = [pc EXCEPT ![p] = "wait"]
    /\ IF outcome = "hang"
       THEN child' = [child EXCEPT ![p] = "hung"] /\ UNCHANGED pdff
       ELSE IF outcome = "fail" \/ texf[key(p)] = "none"
       THEN child' = [child EXCEPT ![p] = "exit1"] /\ UNCHANGED pdff
       ELSE IF outcome = "nopdf"
       THEN child' = [child EXCEPT ![p] = "exit0"] /\ UNCHANGED pdff
       ELSE /\ child' = [child EXCEPT ![p] = "exit0"]
            /\ pdff' = [pdff EXCEPT ![key(p)] = texf[key(p)]]
    /\ UNCHANGED <<cache, outdir, texf, writes, lock, blocks, idx, phase, bytes,
                   active, result, failed, runs, keyVars, ppVars>>

\* command.output() returns once the child has exited (lines 221-231)
CompilerReturns(p) ==
    /\ pc[p] = "wait"
    /\ child[p] \in {"exit0", "exit1"}
    /\ IF child[p] = "exit1"
       THEN Fail(p)
       ELSE /\ pc' = [pc EXCEPT ![p] = "read"]
            /\ child' = [child EXCEPT ![p] = "none"]
            /\ UNCHANGED <<phase, failed, result, bytes>>
    /\ UNCHANGED <<fsVars, writes, lock, blocks, idx, active, runs, keyVars, ppVars>>

\* fs::read(&pdf_path)? (line 233)
ReadPdf(p) ==
    /\ pc[p] = "read"
    /\ IF pdff[key(p)] = "none"
       THEN Fail(p)
       ELSE /\ bytes' = [bytes EXCEPT ![p] = pdff[key(p)]]
            /\ pc' = [pc EXCEPT ![p] = "cleanup"]
            /\ UNCHANGED <<phase, failed, result, child>>
    /\ UNCHANGED <<fsVars, writes, lock, blocks, idx, active, runs, keyVars, ppVars>>

\* the work files are removed (lines 234-235)
Cleanup(p) ==
    /\ pc[p] = "cleanup"
    /\ texf' = [texf EXCEPT ![key(p)] = "none"]
    /\ pdff' = [pdff EXCEPT ![key(p)] = "none"]
    /\ pc' = [pc EXCEPT ![p] = "raster"]
    /\ UNCHANGED <<cache, outdir, writes, lock, blocks, idx, phase, child, bytes,
                   active, result, failed, runs, keyVars, ppVars>>

\* pdf_bytes_to_png (lines 270-314): load, render and encode may each fail
Rasterize(p, ok) ==
    /\ pc[p] = "raster"
    /\ IF ok
       THEN /\ pc' = [pc EXCEPT ![p] = "write"]
            /\ UNCHANGED <<phase, failed, result, child, bytes>>
       ELSE Fail(p)
    /\ UNCHANGED <<fsVars, writes, lock, blocks, idx, active, runs, keyVars, ppVars>>

\* fs::write(&cache_file, bytes) (lines 49 and 66) is File::create followed
\* by write_all.  File::create leaves an empty file at the cache path, or
\* fails and leaves none; the error leaves prepare_tikz_assets through `?`.
CreateCacheFile(p, ok) ==
    /\ pc[p] = "write"
    /\ IF ok
       THEN /\ cache' = [cache EXCEPT ![cache_file(p)] = Partial(key(p))]
            /\ writes' = [writes EXCEPT ![cache_file(p)] = IF @ < 2 THEN @ + 1 ELSE @]
            /\ pc' = [pc EXCEPT ![p] = "fill"]
            /\ UNCHANGED result
       ELSE /\ pc' = [pc EXCEPT ![p] = "done"]
            /\ result' = [result EXCEPT ![p] = "io_err"]
            /\ UNCHANGED <<cache, writes>>
    /\ UNCHANGED <<outdir, texf, pdff, lock, blocks, idx, phase, child, bytes,
                   active, failed, runs, keyVars, ppVars>>

\* write_all puts the bytes in the file, or fails part-way (a full disk) and
\* the file stays as it is.
WriteAllCache(p, ok) ==
    /\ pc[p] = "fill"
    /\ IF ok
       THEN /\ cache' = WrittenCache(cache, cache_file(p), phase[p],
                                     Artifact(bytes[p], key(p)))
            /\ pc' = [pc EXCEPT ![p] = "rmdest"]
            /\ UNCHANGED result
       ELSE /\ pc' = [pc EXCEPT ![p] = "done"]
            /\ result' = [result EXCEPT ![p] = "io_err"]
            /\ UNCHANGED cache
    /\ bytes' = [bytes EXCEPT ![p] = "none"]
    /\ UNCHANGED <<outdir, texf, pdff, writes, lock, blocks, idx, phase, child,
                   active, failed, runs, keyVars, ppVars>>

\* the old output file is removed (lines 71-77)
RemoveDest(p) ==
    /\ pc[p] = "rmdest"
    /\ outdir' = [outdir EXCEPT ![dest_path(p)] = NoFile]
    /\ pc' = [pc EXCEPT ![p] = "copy"]
    /\ UNCHANGED <<cache, texf, pdff, writes, lock, blocks, idx, phase, child,
                   bytes, active, result, failed, runs, keyVars, ppVars>>

\* fs::copy(&cache_file, &dest_path)? and active_outputs.insert (lines 78-79)
CopyToDest(p) ==
    /\ pc[p] = "copy"
    /\ IF cache[cache_file(p)] = NoFile
       THEN /\ pc' = [pc EXCEPT ![p] = "done"]
            /\ result' = [result EXCEPT ![p] = "io_err"]
            /\ UNCHANGED <<outdir, active, idx>>
       ELSE /\ outdir' = [outdir EXCEPT ![dest_path(p)] = cache[cache_file(p)]]
            /\ active' = [active EXCEPT ![p] = @ \cup {dest_path(p)}]
            /\ idx' = [idx EXCEPT ![p] = @ + 1]
            /\ pc' = [pc EXCEPT ![p] = "check"]
            /\ UNCHANGED result
    /\ UNCHANGED <<cache, texf, pdff, writes, lock, blocks, phase, child, bytes,
                   failed, runs, keyVars, ppVars>>

\* the sweep of the output directory and Ok(()) (lines 82-97)
Sweep(p) ==
    /\ pc[p] = "gc"
    /\ outdir' = [q \in DOMAIN outdir |->
                    IF q \in StaleOutputs(outdir, active[p]) THEN NoFile
                    ELSE outdir[q]]
    /\ pc' = [pc EXCEPT ![p] = "done"]
    /\ result' = [result EXCEPT ![p] = "ok"]
    /\ UNCHANGED <<cache, texf, pdff, writes, lock, blocks, idx, phase, child,
                   bytes, active, failed, runs, keyVars, ppVars>>

\* prepare_tikz_assets has returned; the caller's guard is dropped
\* (image_export.rs line 46: `_lock` lives to the end of export_as_image)
Return(p) ==
    /\ pc[p] = "done"
    /\ pc' = [pc EXCEPT ![p] = "idle"]
    /\ lock' = IF lock = p THEN 0 ELSE lock
    /\ blocks' = [blocks EXCEPT ![p] = <<>>]
    /\ idx' = [idx EXCEPT ![p] = 0]
    /\ phase' = [phase EXCEPT ![p] = "real"]
    /\ child' = [child EXCEPT ![p] = "none"]
    /\ bytes' = [bytes EXCEPT ![p] = "none"]
    /\ active' = [active EXCEPT ![p] = {}]
    /\ result' = [result EXCEPT ![p] = "none"]
    /\ failed' = [failed EXCEPT ![p] = FALSE]
    /\ UNCHANGED <<fsVars, writes, runs, keyVars, ppVars>>

\* The run is cut short between two file-system steps (the task is dropped
\* or the process is killed): its locals and its guard are gone, the files
\* stay as they are.
Interrupt(p) ==
    /\ Running(p)
    /\ pc' = [pc EXCEPT ![p] = "idle"]
    /\ lock' = IF lock = p THEN 0 ELSE lock
    /\ blocks' = [blocks EXCEPT ![p] = <<>>]
    /\ idx' = [idx EXCEPT ![p] = 0]
    /\ phase' = [phase EXCEPT ![p] = "real"]
    /\ child' = [child EXCEPT ![p] = "none"]
    /\ bytes' = [bytes EXCEPT ![p] = "none"]
    /\ active' = [active EXCEPT ![p] = {}]
    /\ result' = [result EXCEPT ![p] = "none"]
    /\ failed' = [failed EXCEPT ![p] = FALSE]
    /\ UNCHANGED <<fsVars, writes, runs, keyVars, ppVars>>

CompilerOutcomes == {"ok", "fail", "nopdf", "hang"}

Step(p) ==
    \/ CheckCache(p)
    \/ WriteTex(p)
    \/ DeleteStalePdf(p)
    \/ CompilerReturns(p)
    \/ ReadPdf(p)
    \/ Cleanup(p)
    \/ RemoveDest(p)
    \/ CopyToDest(p)
    \/ Sweep(p)

Next ==
    \/ \E p \in Procs, bs \in BlockLists(MaxBlocks), t \in BOOLEAN : StartRun(p, bs, t)
    \/ \E p \in Procs : Step(p)
    \/ \E p \in Procs, o \in CompilerOutcomes : RunCompiler(p, o)
    \/ \E p \in Procs, ok \in BOOLEAN : Rasterize(p, ok)
    \/ \E p \in Procs, ok \in BOOLEAN : CreateCacheFile(p, ok)
    \/ \E p \in Procs, ok \in BOOLEAN : WriteAllCache(p, ok)
    \/ \E p \in Procs : Return(p)
    \/ \E p \in Procs : Interrupt(p)

Spec == Init /\ [][Next]_vars

TypeOK ==
    /\ \A f \in CacheFiles : cache[f] = NoFile \/ cache[f][2] = f[1]
    /\ lock \in Procs \cup {0}
    /\ runs \in 0..MaxRuns

\* ------------------------------------------------- the key computation alone
\* Two blocks drawn from every combination of source, preamble, format,
\* scale and id; cache_key is applied to each.
KeyBlocks ==
    {TikzBlockMeta(id, d, pre, f, sc) :
        id \in 1..MaxBlocks, d \in Diagrams, pre \in KeyPreambles,
        f \in Formats, sc \in Scales}

InitKey ==
    /\ InitFs
    /\ InitLocals
    /\ idx = [p \in Procs |-> 0]
    /\ lock = 0
    /\ pc = [p \in Procs |-> "idle"]
    /\ blocks = [p \in Procs |-> <<>>]
    /\ runs = 0
    /\ keyIn \in KeyBlocks \X KeyBlocks
    /\ keyOut = <<>>
    /\ ppIn = <<>>
    /\ ppOut = <<>>

ComputeKeys ==
    /\ keyOut = <<>>
    /\ ppIn = <<>>
    /\ ppOut = <<>>
    /\ keyOut' = <<cache_key(keyIn[1]), cache_key(keyIn[2])>>
    /\ UNCHANGED <<fsVars, writes, lock, pc, blocks, idx, phase, child, bytes,
                   active, result, failed, runs, keyIn, ppVars>>

NextKey == ComputeKeys

SpecKey == InitKey /\ [][NextKey]_vars

\* ------------------------------------------- two resolves of the same key
\* Two processes, each inside prepare_tikz_assets with one block of the same
\* cache key, on one build directory; the compiler, the rasterizer and the
\* file system never fail.
InitConc ==
    /\ InitFs
    /\ InitLocals
    /\ idx = [p \in Procs |-> 1]
    /\ lock = 0
    /\ pc = [p \in Procs |-> "check"]
    /\ \E b1 \in RunBlockAt(1), b2 \in RunBlockAt(2) :
          /\ file_of(b1) = file_of(b2)
          /\ blocks = [p \in Procs |-> IF p = 1 THEN <<b1>> ELSE <<b2>>]
    /\ runs = 0
    /\ keyIn = <<>>
    /\ keyOut = <<>>
    /\ ppIn = <<>>
    /\ ppOut = <<>>

NextConc ==
    \/ \E p \in Procs : Step(p)
    \/ \E p \in Procs : RunCompiler(p, "ok")
    \/ \E p \in Procs : Rasterize(p, TRUE)
    \/ \E p \in Procs : CreateCacheFile(p, TRUE)
    \/ \E p \in Procs : WriteAllCache(p, TRUE)

SpecConc == InitConc /\ [][NextConc]_vars

\* ------------------------------------------------ the preprocessor alone
\* Documents are one to MaxDocBlocks blocks, a blank line between two
\* blocks; the preprocessor functions are applied to each.
BlockPool ==
    {<<"#", " ", "T", "i", "t", "l", "e">>, <<"H", "e", "l", "l", "o">>, <<"I", "n", "n", "e",
            "r">>, <<">", " ", "q", "u", "o", "t", "e", "d", " ", "t", "e", "x", "t">>, <<">",
            " ", "P", "a", "r", "a">>,
     <<"-", " ", "a">>, <<"|", "a", "|", "b", "|", "\n", "|", "-", "|", "-", "|", "\n", "|",
             "1", "|", "2", "|">>, <<"~", "~", "~", "t", "i", "k", "z", "\n", "x", "\n", "~",
             "~", "~">>,
     <<"~", "~", "~", "t", "i", "k", "z", " ", "s", "c", "a", "l", "e", "=", "1", ".", "5",
             "0", " ", "f", "o", "r", "m", "a", "t", "=", "'", "s", "v", "g", "'", "\n", "-",
             "-", ">", "\n", "~", "~", "~", "t", "i", "k", "z", "\n", "x", "\"", "y", "\n",
             "~", "~", "~">>, <<"~", "~", "~", "t", "i", "k", "z", "\n", "z">>}

RECURSIVE JoinBlocks(_)
JoinBlocks(bs) ==
    IF Len(bs) = 1 THEN bs[1] ELSE bs[1] \o <<"\n", "\n">> \o JoinBlocks(Tail(bs))

Documents == {JoinBlocks(bs) : bs \in UNION {[1..n -> BlockPool] : n \in 1..MaxDocBlocks}}

InitPre ==
    /\ InitFs
    /\ InitLocals
    /\ idx = [p \in Procs |-> 0]
    /\ lock = 0
    /\ pc = [p \in Procs |-> "idle"]
    /\ blocks = [p \in Procs |-> <<>>]
    /\ runs = 0
    /\ keyIn = <<>>
    /\ keyOut = <<>>
    /\ ppIn \in Documents
    /\ ppOut = <<>>

pipelineVars == <<fsVars, writes, lock, pc, blocks, idx, phase, child, bytes,
                  active, result, failed, runs, keyVars>>

InjectAnchors ==
    /\ ppOut = <<>>
    /\ ppOut' = [op |-> "inject_anchors", r |-> inject_anchors(ppIn)]
    /\ UNCHANGED <<pipelineVars, ppIn>>

\* inject_tikz_blocks, and inject_tikz_blocks again on what it returned
InjectTikz ==
    /\ ppOut = <<>>
    /\ ppOut' = [op |-> "inject_tikz_blocks", r |-> inject_tikz_blocks(ppIn), again |-> <<>>]
    /\ UNCHANGED <<pipelineVars, ppIn>>

Reinject ==
    /\ ppOut # <<>> /\ ppOut.op = "inject_tikz_blocks" /\ ppOut.again = <<>>
    /\ ppOut' = [ppOut EXCEPT !.again = <<inject_tikz_blocks(ppOut.r)>>]
    /\ UNCHANGED <<pipelineVars, ppIn>>

Preprocess ==
    /\ ppOut = <<>>
    /\ ppOut' = [op |-> "preprocess_markdown", r |-> preprocess_markdown(ppIn)]
    /\ UNCHANGED <<pipelineVars, ppIn>>

NextPre ==
    \/ InjectAnchors
    \/ InjectTikz
    \/ Reinject
    \/ Preprocess

SpecPre == InitPre /\ [][NextPre]_vars

\* ------------------------------------------------ the fence parser alone
\* Info strings written from a list of options: the marker word, then one
\* key=value token per option, the value bare or wrapped in quotes with the
\* escapes \\ \" \' \n \t for the characters that need them. `written`
\* records the options an info string was written from.
OptionKeys == {<<"s", "c", "a", "l", "e">>, <<"p", "r", "e", "a", "m", "b", "l", "e">>, <<"f",
        "o", "r", "m", "a", "t">>, <<"l", "i", "b">>}
BareValues == {<<"0", ".", "7", "5">>, <<"a", "\\", ",", "b">>, <<>>}
QuotedValues == BareValues \cup {<<"a", " ", "b", ",", "c", ";", "d">>, <<"x", "\"", "'",
        "\\", "\n", "\t", "y">>}
Separators == {<<" ">>, <<",", " ">>, <<";">>}
WrittenOptions ==
    {[key |-> k, quote |-> "", value |-> v] : k \in OptionKeys, v \in BareValues}
    \cup {[key |-> k, quote |-> q, value |-> v] :
            k \in OptionKeys, q \in {"\"", "'"}, v \in QuotedValues}

RECURSIVE EscapeQuoted(_)
EscapeQuoted(v) ==
    IF v = <<>> THEN <<>>
    ELSE (CASE Head(v) \in {"\\", "\"", "'"} -> <<"\\", Head(v)>>
            [] Head(v) = "\n" -> <<"\\", "n">>
            [] Head(v) = "\t" -> <<"\\", "t">>
            [] OTHER -> <<Head(v)>>) \o EscapeQuoted(Tail(v))

WriteOption(o) ==
    o.key \o <<"=">> \o
    (IF o.quote = "" THEN o.value ELSE <<o.quote>> \o EscapeQuoted(o.value) \o <<o.quote>>)

RECURSIVE WriteOptions(_, _)
WriteOptions(opts, sep) ==
    IF opts = <<>> THEN <<>> ELSE sep \o WriteOption(Head(opts)) \o WriteOptions(Tail(opts), sep)

WriteInfo(opts, sep) == <<"t", "i", "k", "z">> \o WriteOptions(opts, sep)

\* the option lists: one to MaxOptions options with different keys
OptionLists ==
    {os \in UNION {[1..n -> WrittenOptions] : n \in 1..MaxOptions} :
        \A i, j \in 1..Len(os) : i # j => os[i].key # os[j].key}

\* the info string of the unit test parse_tikz_options_with_quotes
FenceExample == <<"t", "i", "k", "z", " ", "s", "c", "a", "l", "e", "=", "0", ".", "7", "5",
        " ", "p", "r", "e", "a", "m", "b", "l", "e", "=", "\"", "\\", "u", "s", "e", "t", "i",
        "k", "z", "l", "i", "b", "r", "a", "r", "y", "{", "c", "a", "l", "c", "}", "\"", " ",
        "f", "o", "r", "m", "a", "t", "=", "'", "v", "e", "c", "t", "o", "r", "'">>

FenceInputs ==
    {[info |-> WriteInfo(os, sep), written |-> os] : os \in OptionLists, sep \in Separators}
    \cup {[info |-> FenceExample, written |-> <<>>]}

InitFence ==
    /\ InitFs
    /\ InitLocals
    /\ idx = [p \in Procs |-> 0]
    /\ lock = 0
    /\ pc = [p \in Procs |-> "idle"]
    /\ blocks = [p \in Procs |-> <<>>]
    /\ runs = 0
    /\ keyIn = <<>>
    /\ keyOut = <<>>
    /\ ppIn \in FenceInputs
    /\ ppOut = <<>>

ParseFence ==
    /\ ppOut = <<>>
    /\ ppOut' = [op |-> "parse_tikz_fence", r |-> parse_tikz_fence(ppIn.info)]
    /\ UNCHANGED <<pipelineVars, ppIn>>

NextFence == ParseFence

SpecFence == InitFence /\ [][NextFence]_vars


\* ------------------------------------------------ the marker of a fence
\* First tokens of an info string, each with whether it is the marker word
\* once surrounding brackets and punctuation are cut off and the case is
\* folded.
MarkerWords ==
    {[text |-> t, marker |-> TRUE] :
        t \in {<<"t", "i", "k", "z">>, <<"T", "i", "k", "Z">>, <<"T", "I", "K", "Z">>, <<"{",
                "t", "i", "k", "z", "}">>, <<"[", "T", "i", "k", "z", "]">>, <<"(", "t", "i",
                "k", "z", ")">>}}
    \cup {[text |-> t, marker |-> FALSE] :
        t \in {<<>>, <<"r", "u", "s", "t">>, <<"t", "i", "k", "z", "p", "i", "c", "t", "u",
                "r", "e">>, <<"{", ".", "t", "i", "k", "z", "}">>, <<"t", "{", "i", "}", "k",
                "z">>, <<"t", "i", "k", "z", "=", "1">>,
               <<"'", "t", "i", "k", "z", "'">>}}

\* a document that is one fenced code block with the info string
Fenced(info) == FenceMark \o info \o <<"\n", "x", "\n">> \o FenceMark

\* The info strings: a first token, then up to MaxOptions tokens, each a
\* recognised option, a token with another key or a token without '='; no
\* recognised option is written twice.
MarkerInputs ==
    LET options == {[key |-> <<"s", "c", "a", "l", "e">>, quote |-> "", value |-> <<"0", ".",
            "7", "5">>],
                    [key |-> <<"f", "o", "r", "m", "a", "t">>, quote |-> "'", value |-> <<"a",
                            " ", "b">>],
                    [key |-> <<"p", "r", "e", "a", "m", "b", "l",
                            "e">>, quote |-> "\"", value |-> <<"p", ";", "q">>]}
        dropped == {<<"d", "r", "a", "f", "t">>, <<"l", "i", "b", "=", "c", "a", "l",
                "c">>, <<"w", "i", "d", "t", "h", "=", "3">>, <<"=", "5">>, <<"s", "c", "a",
                "l", "e", "d", "=", "9">>}
        items == {[text |-> WriteOption(o), opt |-> <<o>>] : o \in options}
                 \cup {[text |-> w, opt |-> <<>>] : w \in dropped}
        lists == {is \in UNION {[1..n -> items] : n \in 0..MaxOptions} :
                    \A i, j \in 1..Len(is) : (i # j /\ is[i].opt # <<>>) => is[i] # is[j]}
        RECURSIVE write(_)
        write(is) == IF is = <<>> THEN <<>> ELSE <<" ">> \o Head(is).text \o write(Tail(is))
        written(is) == LET sel == SelectSeq(is, LAMBDA i : i.opt # <<>>)
                       IN  [n \in 1..Len(sel) |-> sel[n].opt[1]]
    IN  {[info |-> w.text \o write(is), marker |-> w.marker,
          written |-> written(is), dropped |-> Len(is) - Len(written(is))] :
            w \in MarkerWords, is \in lists}
        \cup {[info |-> <<" ", " ", " ">>, marker |-> FALSE, written |-> <<>>, dropped |-> 0]}

InitMarker ==
    /\ InitFs
    /\ InitLocals
    /\ idx = [p \in Procs |-> 0]
    /\ lock = 0
    /\ pc = [p \in Procs |-> "idle"]
    /\ blocks = [p \in Procs |-> <<>>]
    /\ runs = 0
    /\ keyIn = <<>>
    /\ keyOut = <<>>
    /\ ppIn \in MarkerInputs
    /\ ppOut = <<>>

\* the fence start of inject_tikz_blocks (lines 69-77) on the one-fence
\* document, with what parse_tikz_fence returned for its info string
ScanFence ==
    /\ ppOut = <<>>
    /\ ppOut' = [op |-> "scan_fence", r |-> parse_tikz_fence(ppIn.info),
                 out |-> inject_tikz_blocks(Fenced(ppIn.info))]
    /\ UNCHANGED <<pipelineVars, ppIn>>

NextMarker == ScanFence

SpecMarker == InitMarker /\ [][NextMarker]_vars

\* ------------------------------------------------------ the source map
\* One result of the query for the label id, with the location (p, x, y)
\* in the given shape: the value, and the position it is to be read as.
QueryResult(place, shape, id, p, x, y) ==
    LET Object(members) == [t |-> "object", v |-> members]
        Array(elements) == [t |-> "array", v |-> elements]
        String(chars) == [t |-> "string", v |-> chars]
        Number(n) == [t |-> "number", v |-> n]
        m(k, v) == [k |-> k, v |-> v]
        xy == Object(<<m("x", Number(x)), m("y", Number(y))>>)
        page == m("page", Number(p))
        loc(members) == m("location", Object(members))
        other == Object(<<m("page", Number(9)),
                          m("position", Object(<<m("x", Number(99)), m("y", Number(98))>>))>>)
        members ==
            CASE shape = "direct" -> <<page, m("position", xy)>>
              [] shape = "location" -> <<loc(<<page, m("position", xy)>>)>>
              [] shape = "point" -> <<loc(<<page, m("point", xy)>>)>>
              [] shape = "pos" -> <<page, m("pos", xy)>>
              [] shape = "rect" ->
                    <<loc(<<page, m("rect", Array(<<Number(x), Number(y),
                                                    Number(x + 1), Number(y + 1)>>))>>)>>
              [] shape = "nopage" -> <<loc(<<m("position", xy)>>)>>
              [] shape = "pagestring" -> <<m("page", String(Decimal(p))), m("position", xy)>>
              [] shape = "deep" ->
                    <<m("func", String(<<"m">>)),
                      m("body", Object(<<m("children",
                            Array(<<Number(0), Object(<<loc(<<page, m("position", xy)>>)>>)>>))>>))>>
              [] shape = "two" ->
                    <<m("a", Object(<<loc(<<page, m("position", xy)>>)>>)),
                      m("b", Object(<<m("location", other)>>))>>
              [] shape = "none" -> <<m("func", String(<<"m">>))>>
              [] shape = "pageonly" -> <<page>>
        label == m("label", String(id))
        value ==
            CASE place = "label" -> Object(<<label>> \o members)
              [] place = "last" -> Object(members \o <<label>>)
              [] OTHER -> Object(<<m(place, Object(<<label>>))>> \o members)
    IN  [id |-> id, place |-> place, shape |-> shape, value |-> value,
         pos |-> CASE shape \in {"none", "pageonly"} -> None
                   [] shape = "nopage" -> Some(PdfPosition(1, x, y))
                   [] OTHER -> Some(PdfPosition(p, x, y))]

\* The inputs of the merger: the anchors of a document of up to MaxDocBlocks
\* paragraphs and a query result tree, an array with one result for each
\* anchor of a subset (their places and shapes differ from one anchor to
\* the next), before or after a result for a label that is no anchor's.
MergeInputs ==
    LET LabelPlaces == <<"label", "value", "target", "node", "fields", "last">>
        LocationShapes == <<"direct", "location", "point", "pos", "rect", "nopage",
                            "pagestring", "deep", "two", "none", "pageonly">>
        np == Len(LabelPlaces)
        ns == Len(LocationShapes)
        RECURSIVE Paragraphs(_)
        Paragraphs(n) == IF n = 1 THEN <<"H", "e", "l", "l",
                "o">> ELSE Paragraphs(n - 1) \o <<"\n", "\n", "H", "e", "l", "l", "o">>
        resultOf(anchors, k, i) ==
            QueryResult(LabelPlaces[((k + i) % np) + 1],
                        LocationShapes[(((k + 7 * i) \div np) % ns) + 1],
                        anchors[i].id, i + 1, 10 * i, 10 * i + 5)
        stray == QueryResult("label", "direct", <<"t", "f", "-", "7", "7", "-",
                "7">>, 7, 70, 75)
        results(anchors, k, with) ==
            LET sel == SelectSeq([i \in 1..Len(anchors) |-> i], LAMBDA i : i \in with)
            IN  [j \in 1..Len(sel) |-> resultOf(anchors, k, sel[j])]
    IN  UNION {
          LET anchors == inject_anchors(Paragraphs(n)).anchors
          IN  {[anchors |-> anchors,
                results |-> IF extra = "none" THEN results(anchors, k, with)
                            ELSE IF extra = "front"
                            THEN <<stray>> \o results(anchors, k, with)
                            ELSE results(anchors, k, with) \o <<stray>>] :
                  k \in 0..(np * ns - 1), with \in SUBSET (1..n),
                  extra \in {"none", "front", "back"}}
          : n \in 1..MaxDocBlocks}

InitMerge ==
    /\ InitFs
    /\ InitLocals
    /\ idx = [p \in Procs |-> 0]
    /\ lock = 0
    /\ pc = [p \in Procs |-> "idle"]
    /\ blocks = [p \in Procs |-> <<>>]
    /\ runs = 0
    /\ keyIn = <<>>
    /\ keyOut = <<>>
    /\ ppIn \in MergeInputs
    /\ ppOut = <<>>

\* pdf_positions_from_query on the array of the results
Query ==
    /\ ppOut = <<>>
    /\ ppOut' = [op |-> "pdf_positions_from_query",
                 positions |-> pdf_positions_from_query(
                     [t |-> "array",
                      v |-> [i \in 1..Len(ppIn.results) |-> ppIn.results[i].value]])]
    /\ UNCHANGED <<pipelineVars, ppIn>>

\* attach_pdf_positions on the anchors and the positions of the query
Attach ==
    /\ ppOut # <<>>
    /\ ppOut.op = "pdf_positions_from_query"
    /\ ppOut' = [op |-> "attach_pdf_positions", positions |-> ppOut.positions,
                 payload |-> attach_pdf_positions(ppIn.anchors, ppOut.positions)]
    /\ UNCHANGED <<pipelineVars, ppIn>>

NextMerge == Query \/ Attach

SpecMerge == InitMerge /\ [][NextMerge]_vars

\* ------------------------------------------------------ export_as_image
\* Two invocations of export_as_image.  The steps of the body after the
\* lock is taken, each of which may return an error through `?`:
\* directories (lines 49-51), preferences (62), preprocessing and
\* content.md (73-76), prepare_tikz_assets (77), template and Typst lookup
\* (80-84), the Typst compile (87-149).
ExportBody == <<"dirs", "prefs", "preprocess", "assets", "template", "typst">>

InitExport ==
    /\ InitFs
    /\ InitLocals
    /\ idx = [p \in Procs |-> 0]
    /\ lock = 0
    /\ pc = [p \in Procs |-> "idle"]
    /\ blocks = [p \in Procs |-> <<>>]
    /\ runs = 0
    /\ keyIn = <<>>
    /\ keyOut = <<>>
    /\ ppIn = <<>>
    /\ ppOut = <<>>

exportVars == <<fsVars, writes, blocks, idx, phase, child, bytes, active, failed,
                keyVars, ppVars>>

\* the call: an unsupported format returns an error before the lock is
\* asked for (lines 38-43); otherwise the invocation waits for the lock
ExportAsImage(p, formatOk) ==
    /\ pc[p] = "idle"
    /\ runs < MaxRuns
    /\ runs' = runs + 1
    /\ pc' = [pc EXCEPT ![p] = IF formatOk THEN "locking" ELSE "exit"]
    /\ result' = [result EXCEPT ![p] = IF formatOk THEN "none" ELSE "format_err"]
    /\ UNCHANGED <<lock, exportVars>>

\* IMAGE_EXPORT_MUTEX.lock().await returns the guard (line 46)
AcquireLock(p) ==
    /\ pc[p] = "locking"
    /\ lock = 0
    /\ lock' = p
    /\ pc' = [pc EXCEPT ![p] = ExportBody[1]]
    /\ UNCHANGED <<result, runs, exportVars>>

\* One step of the body: it goes on to the next step (after the last one
\* the result is Ok), returns its error, or, where an external process is
\* waited for without a timeout (lines 77 and 135-138), never ends.
BodyStep(p, outcome) ==
    /\ \E i \in 1..Len(ExportBody) :
          /\ pc[p] = ExportBody[i]
          /\ outcome = "hang" => ExportBody[i] \in {"assets", "typst"}
          /\ pc' = [pc EXCEPT ![p] =
                      CASE outcome = "hang" -> "hung"
                        [] outcome = "ok" /\ i < Len(ExportBody) -> ExportBody[i + 1]
                        [] OTHER -> "exit"]
          /\ result' = [result EXCEPT ![p] =
                          CASE outcome = "err" -> ExportBody[i] \o "_err"
                            [] outcome = "ok" /\ i = Len(ExportBody) -> "ok"
                            [] OTHER -> @]
    /\ UNCHANGED <<lock, runs, exportVars>>

\* the guard dropped with the result kept, for comparison: only an Ok
\* return releases the lock
DropGuard_okOnly(p) ==
    /\ pc[p] = "exit"
    /\ pc' = [pc EXCEPT ![p] = "idle"]
    /\ lock' = IF lock = p /\ result[p] = "ok" THEN 0 ELSE lock
    /\ UNCHANGED <<result, runs, exportVars>>

\* the function returns: `_lock` goes out of scope and the guard, if the
\* invocation got one, is dropped; the result stays with the caller
DropGuard(p) ==
    /\ pc[p] = "exit"
    /\ pc' = [pc EXCEPT ![p] = "idle"]
    /\ lock' = IF lock = p THEN 0 ELSE lock
    /\ UNCHANGED <<result, runs, exportVars>>

NextExport ==
    \/ \E p \in Procs, ok \in BOOLEAN : ExportAsImage(p, ok)
    \/ \E p \in Procs : AcquireLock(p)
    \/ \E p \in Procs, o \in {"ok", "err", "hang"} : BodyStep(p, o)
    \/ \E p \in Procs : DropGuard(p)

\* an invocation that can take a step takes it: the task is polled until
\* the function returns
SpecExport ==
    /\ InitExport
    /\ [][NextExport]_vars
    /\ \A p \in Procs : WF_vars(AcquireLock(p)) /\ WF_vars(DropGuard(p))

\* ------------------------------------------------- the failure message
\* Failure messages: a run of the letter a that ends a few bytes before or
\* after byte MAX_LEN, followed by a tail, with or without white space
\* around the whole.
Messages ==
    LET tails == {<<>>, <<"C3", "A9">>, <<"C3", "A9", "b">>, <<"\n", "b">>,
                  <<"b", "c", "d">>, <<"E2", "80", "A6", "!">>}
        run(k) == [i \in 1..k |-> "a"]
    IN  {lead \o run(k) \o tail \o trail :
            k \in {3} \cup ((MAX_LEN - 4)..(MAX_LEN + 2)), tail \in tails,
            lead \in {<<>>, <<" ">>}, trail \in {<<>>, <<"\n">>}}

InitMessage ==
    /\ InitFs
    /\ InitLocals
    /\ idx = [p \in Procs |-> 0]
    /\ lock = 0
    /\ pc = [p \in Procs |-> "idle"]
    /\ blocks = [p \in Procs |-> <<>>]
    /\ runs = 0
    /\ keyIn = <<>>
    /\ keyOut = <<>>
    /\ ppIn \in Messages
    /\ ppOut = <<>>

\* build_error_artifact: let preview = truncate_message(message) (line 255)
Truncate ==
    /\ ppOut = <<>>
    /\ ppOut' = [op |-> "truncate_message", r |-> truncate_message(ppIn)]
    /\ UNCHANGED <<pipelineVars, ppIn>>

NextMessage == Truncate

SpecMessage == InitMessage /\ [][NextMessage]_vars


\* ================================================================== claims
Ended(p) == pc[p] = "done"
BlockEnded(p) == pc[p] \in {"rmdest", "copy"}
CompilePcs == {"tex", "stale", "spawn", "wait", "read", "cleanup", "raster", "write"}

\* C1 (as stated): whenever a block whose cache entry was missing has had its
\* compile fail, the block ends (goes on to the copy, or ends the run with
\* the fallback's error) with a file present at its cache path.
C1_CompileFailureNeverLeavesCacheMissing ==
    \A p \in Procs :
        (failed[p] /\ (BlockEnded(p) \/ (Ended(p) /\ result[p] = "fallback_err")))
            => cache[cache_file(p)] # NoFile

\* C1 (amended): a block whose compile failed and whose fallback build and
\* cache write went through ends with the fallback artifact at its cache
\* path; when the fallback build itself fails the cache path stays empty
\* and the run returns the error.
C1_FallbackArtifactCachedUnlessFallbackFails ==
    \A p \in Procs :
        /\ (failed[p] /\ BlockEnded(p))
              => cache[cache_file(p)] = Artifact("err", key(p))
        /\ (failed[p] /\ Ended(p) /\ result[p] = "fallback_err")
              => cache[cache_file(p)] = NoFile

C1_Witness ==
    \E p \in Procs : failed[p] /\ BlockEnded(p) /\ cache[cache_file(p)] # NoFile

\* C2: when the compile and the fallback build of one block both fail, every
\* other block of the list has been resolved and copied to its output path.
C2_FallbackFailureConfinedToBlock ==
    \A p \in Procs :
        (Ended(p) /\ result[p] = "fallback_err") =>
            \A j \in 1..Len(blocks[p]) :
                j # idx[p] =>
                    /\ blocks[p][j].asset_path \in active[p]
                    /\ outdir[blocks[p][j].asset_path] # NoFile
                    /\ outdir[blocks[p][j].asset_path] = cache[file_of(blocks[p][j])]

\* C3: whenever prepare_tikz_assets returns Ok, every block of the list has
\* a file at its output path whose bytes are those of its cache entry.
C3_SuccessMeansEveryBlockHasItsArtifact ==
    \A p \in Procs :
        (Ended(p) /\ result[p] = "ok") =>
            \A j \in 1..Len(blocks[p]) :
                /\ outdir[blocks[p][j].asset_path] # NoFile
                /\ outdir[blocks[p][j].asset_path] = cache[file_of(blocks[p][j])]

C3_Witness ==
    \E p \in Procs :
        /\ Ended(p) /\ result[p] = "ok" /\ Len(blocks[p]) = 2
        /\ cache_key(blocks[p][1]) # cache_key(blocks[p][2])
        /\ cache[file_of(blocks[p][1])] = Artifact("err", cache_key(blocks[p][1]))
        /\ cache[file_of(blocks[p][2])] = Artifact("doc", cache_key(blocks[p][2]))

\* C4: a block whose cache file exists is never sent to the compiler and
\* its cache file is not rewritten: while a block is being compiled its cache
\* file is absent, no cache file is written twice, over any runs and any
\* duplicates in a list, and a cache file that is not in the middle of its
\* one write never changes.
BeingWritten(f) == \E p \in Procs : pc[p] = "fill" /\ cache_file(p) = f

C4_CacheFilesWrittenOnce ==
    /\ [](\A p \in Procs : pc[p] \in CompilePcs => cache[cache_file(p)] = NoFile)
    /\ [](\A f \in CacheFiles : writes[f] <= 1)
    /\ [][\A f \in CacheFiles :
            (cache[f] # NoFile /\ ~BeingWritten(f)) => cache'[f] = cache[f]]_vars

C4_Witness ==
    \E p \in Procs :
        /\ pc[p] = "rmdest" /\ idx[p] = 2 /\ runs = 2
        /\ blocks[p][1].diagram # blocks[p][2].diagram
        /\ file_of(blocks[p][1]) = file_of(blocks[p][2])
        /\ writes[cache_file(p)] = 1

\* C7: a compiler that never exits is ended by a timeout: whenever a block
\* waits for the compiler, the wait can end (command.output() can return).
C7_CompilerWaitCanEnd ==
    \A p \in Procs : pc[p] = "wait" => ENABLED CompilerReturns(p)

\* C8: a file that exists at a cache path holds a complete artifact, in
\* every state, those a cut-short run leaves behind included.
C8_NoPartialCacheEntry ==
    \A f \in CacheFiles :
        (cache[f] # NoFile /\ ~BeingWritten(f))
            => cache[f] \in {Artifact("doc", f[1]), Artifact("err", f[1])}

\* C10: after every Ok return, for any list (the empty one included), the
\* files of the output directory are exactly those copied during the run.
C10_OutputDirHoldsOnlyThisRun ==
    \A p \in Procs :
        (Ended(p) /\ result[p] = "ok") =>
            \A q \in OutPaths : outdir[q] # NoFile <=> q \in active[p]

\* C5: for every source and preamble, the key for format "png" differs from
\* the key for format "svg".
C5_KeyDependsOnFormat ==
    (keyOut # <<>> /\ keyIn[1].diagram = keyIn[2].diagram
                   /\ keyIn[1].preamble = keyIn[2].preamble
                   /\ keyIn[1].format = "png" /\ keyIn[2].format = "svg")
        => keyOut[1] # keyOut[2]

\* C6: two blocks with the same source, preamble and format get the same
\* key, whatever their id, scale option and output path.
C6_KeyIgnoresIdScaleAndPath ==
    (keyOut # <<>> /\ keyIn[1].diagram = keyIn[2].diagram
                   /\ keyIn[1].preamble = keyIn[2].preamble
                   /\ keyIn[1].format = keyIn[2].format)
        => keyOut[1] = keyOut[2]

C6_Witness ==
    /\ keyOut # <<>>
    /\ keyIn[1].diagram = keyIn[2].diagram
    /\ keyIn[1].preamble = keyIn[2].preamble
    /\ keyIn[1].format = keyIn[2].format
    /\ keyIn[1].id # keyIn[2].id
    /\ keyIn[1].scale # keyIn[2].scale
    /\ keyIn[1].asset_path # keyIn[2].asset_path
    /\ keyOut[1] = keyOut[2]

\* C9: two resolves of the same key running at once, with a compiler that
\* succeeds on every document: once both have returned, both returned Ok and
\* the cache entry of the key is the real artifact.
C9_ConcurrentSameKeyResolvesAreSafe ==
    (\A p \in Procs : Ended(p)) =>
        \A p \in Procs :
            /\ result[p] = "ok"
            /\ cache[file_of(blocks[p][1])] = Artifact("doc", cache_key(blocks[p][1]))

\* ------------------------------------------------------ anchor injection
Anchored == ppOut # <<>> /\ ppOut.op = "inject_anchors"

\* the text left when each snippet is cut out at its offset, first to last;
\* <<"?">> when a snippet is not where its offset says
RECURSIVE DeleteSnippets(_, _)
DeleteSnippets(out, ins) ==
    IF ins = <<>> THEN out
    ELSE LET o == Head(ins)[1]
             s == Head(ins)[2]
         IN  IF Slice(out, o, o + Len(s)) = s
             THEN DeleteSnippets(Slice(out, 0, o) \o Slice(out, o + Len(s), Len(out)), Tail(ins))
             ELSE <<"?">>

RECURSIVE SumLen(_)
SumLen(ins) == IF ins = <<>> THEN 0 ELSE Len(Head(ins)[2]) + SumLen(Tail(ins))

\* C12: the text inject_anchors returns is the input with one snippet per
\* returned anchor spliced in at the anchor's offset: its length is the
\* input's plus the snippets', and cutting the snippets out gives the input.
C12_OutputIsInputPlusSnippets ==
    Anchored =>
        LET r == ppOut.r
        IN  /\ Len(r.insertions) = Len(r.anchors)
            /\ \A i \in 1..Len(r.anchors) :
                  /\ r.insertions[i][1] = r.anchors[i].offset
                  /\ EndsWith(r.insertions[i][2], LabelOpen \o r.anchors[i].id \o LabelClose)
            /\ Len(r.markdown) = Len(ppIn) + SumLen(r.insertions)
            /\ DeleteSnippets(r.markdown, r.insertions) = ppIn

\* three anchors or more, one of them spliced into the middle of a line
C12_Witness ==
    /\ Anchored
    /\ Len(ppOut.r.anchors) >= 3
    /\ \E i \in 1..Len(ppOut.r.insertions) : Head(ppOut.r.insertions[i][2]) = "\n"

\* where the label directives sit in a text, first to last
DirectiveStarts(text) ==
    SortedSeq({i \in 0..Len(text) : StartsWith(Slice(text, i, Len(text)), LabelOpen)})
\* the directives of a text are those of the anchors, in the list's order
DirectivesInOrder(text, anchors) ==
    LET at == DirectiveStarts(text)
    IN  /\ Len(at) = Len(anchors)
        /\ \A j \in 1..Len(at) :
              StartsWith(Slice(text, at[j], Len(text)),
                         LabelOpen \o anchors[j].id \o LabelClose)

TitleHello == <<"#", " ", "T", "i", "t", "l", "e", "\n", "\n", "H", "e", "l", "l", "o">>

EventSet(text) == LET evs == Events(text) IN {evs[i] : i \in DOMAIN evs}
Tables(text) == {e \in EventSet(text) : e.tag = "Table"}
AnchorSet == LET a == ppOut.r.anchors IN {a[i] : i \in DOMAIN a}
TableOnly == <<"|", "a", "|", "b", "|", "\n", "|", "-", "|", "-", "|", "\n", "|", "1", "|",
        "2", "|">>

\* C14 (as stated): no anchor lies strictly inside a table's byte span and
\* exactly one anchor precedes the table.
C14_ExactlyOneAnchorPrecedesTable ==
    Anchored =>
        \A T \in Tables(ppIn) :
            /\ \A a \in AnchorSet : ~(T.start < a.offset /\ a.offset < T.end)
            /\ Cardinality({a \in AnchorSet : a.offset <= T.start}) = 1

\* C14 (amended): a table adds no anchor: none lies strictly inside its byte
\* span, and one at its start offset can only be the document-start anchor
\* of a document the table opens; the anchors before the table are the
\* document-start anchor and those of the blocks before it, and a document
\* that is only the table has the document-start anchor alone.
C14_TableAddsNoAnchor ==
    Anchored =>
        /\ \A T \in Tables(ppIn) :
              /\ \A a \in AnchorSet : ~(T.start < a.offset /\ a.offset < T.end)
              /\ \A a \in AnchorSet : a.offset = T.start => a.id = doc_id
              /\ \E a \in AnchorSet : a.offset <= T.start
        /\ ppIn = TableOnly => ppOut.r.anchors = <<Anchor(doc_id, ppIn, 0)>>

\* a table after two anchored blocks
C14_Witness ==
    /\ Anchored
    /\ \E T \in Tables(ppIn) : Cardinality({a \in AnchorSet : a.offset < T.start}) >= 2

QuotedText == <<">", " ", "q", "u", "o", "t", "e", "d", " ", "t", "e", "x", "t">>
ParaInner == <<">", " ", "P", "a", "r", "a", "\n", "\n", "I", "n", "n", "e", "r">>

\* C15: "> quoted text" gets no anchor for the quote line (the
\* document-start anchor is the only one); in "> Para\n\nInner" no anchor
\* targets the block quote and the paragraph "Inner" after it gets an
\* anchor at its start offset, 8.
C15_QuoteLinesGetNoAnchor ==
    /\ (Anchored /\ ppIn = QuotedText) =>
          ppOut.r.anchors = <<Anchor(doc_id, ppIn, 0)>>
    /\ (Anchored /\ ppIn = ParaInner) =>
          /\ Len(ppOut.r.anchors) = 2
          /\ ppOut.r.anchors[1] = Anchor(doc_id, ppIn, 0)
          /\ ppOut.r.anchors[2].offset = 8
          /\ Slice(ppIn, 8, Len(ppIn)) = <<"I", "n", "n", "e", "r">>

C15_Witness == Anchored /\ ppIn = ParaInner /\ Len(ppOut.r.anchors) = 2

Quotes(text) == {e \in EventSet(text) : e.tag = "BlockQuote"}
QuotedParagraphs(text) ==
    {e \in EventSet(text) :
        e.tag = "Paragraph" /\ \E Q \in Quotes(text) : Q.start < e.start /\ e.start < Q.end}

\* C16: a block-quote container gets no anchor of its own, and every
\* paragraph nested inside a block quote has an anchor at its start offset.
C16_QuotedParagraphsAreAnchored ==
    Anchored =>
        /\ \A Q \in Quotes(ppIn) : \A a \in AnchorSet : a.offset = Q.start => a.id = doc_id
        /\ \A P \in QuotedParagraphs(ppIn) : \E a \in AnchorSet : a.offset = P.start

\* C17: the ids of the returned anchors are pairwise distinct: the first is
\* the document-start id, and the id of the anchor at list position i > 1
\* is "tf-", its start offset, "-", and i - 1 (the anchors emitted before it).
C17_AnchorIdsAreDistinct ==
    Anchored =>
        LET a == ppOut.r.anchors
        IN  /\ a[1].id = doc_id
            /\ \A i \in 2..Len(a) :
                  a[i].id = <<"t", "f",
                          "-">> \o Decimal(a[i].offset) \o <<"-">> \o Decimal(i - 1)
            /\ \A i, j \in 1..Len(a) : i # j => a[i].id # a[j].id

\* four anchors or more, one at an offset of two digits
C17_Witness ==
    /\ Anchored
    /\ Len(ppOut.r.anchors) >= 4
    /\ \E a \in AnchorSet : a.offset >= 10

\* the block starts that ask for an anchor: Start events of block-level
\* tags, not skipped, not on a quote line
Candidates(text) ==
    {e \in EventSet(text) :
        /\ is_block_level(e.tag)
        /\ e.tag \notin SkippedTags
        /\ ~OnQuoteLine(text, e.start)}

\* C18: the first anchor is the document-start anchor at offset 0, the
\* offsets grow strictly along the list (so the list is in document order
\* and no offset, 0 included, is anchored twice), and the anchored offsets
\* are offset 0 and the start offsets of the candidates.
C18_AnchorsInDocumentOrder ==
    Anchored =>
        LET a == ppOut.r.anchors
        IN  /\ a[1] = Anchor(doc_id, ppIn, 0)
            /\ \A i, j \in 1..Len(a) : i < j => a[i].offset < a[j].offset
            /\ {x.offset : x \in AnchorSet} = {0} \cup {e.start : e \in Candidates(ppIn)}

\* two candidates share an offset other than 0, and a candidate starts at 0
C18_Witness ==
    /\ Anchored
    /\ \E e, f \in Candidates(ppIn) : e # f /\ e.start = f.start /\ e.start > 0
    /\ \E e \in Candidates(ppIn) : e.start = 0

\* --------------------------------------------------------- fence parsing
Parsed == ppOut # <<>> /\ ppOut.op = "parse_tikz_fence"

OptionWritten(opts, k) ==
    IF \E i \in 1..Len(opts) : opts[i].key = k
    THEN Some(opts[CHOOSE i \in 1..Len(opts) : opts[i].key = k].value)
    ELSE None

\* C20: parse_tikz_fence returns each recognised key with the value it was
\* written with: a quoted value without its quotes and with its escapes
\* decoded, white space, commas and semicolons inside the quotes kept, a
\* bare value as written; keys not written stay unset and other keys are
\* ignored. The unit test's info string gives scale 0.75, preamble
\* \usetikzlibrary{calc} and format vector.
C20_FenceOptionsParsed ==
    Parsed =>
        IF ppIn.written = <<>>
        THEN ppOut.r = Some([scale |-> Some(<<"0", ".", "7", "5">>),
                             preamble |-> Some(<<"\\", "u", "s", "e", "t", "i", "k", "z",
                                                "l", "i", "b", "r", "a", "r", "y",
                                                "{", "c", "a", "l", "c", "}">>),
                             format |-> Some(<<"v", "e", "c", "t", "o", "r">>)])
        ELSE ppOut.r = Some([scale |-> OptionWritten(ppIn.written, <<"s", "c", "a", "l", "e">>),
                             preamble |-> OptionWritten(ppIn.written,
                                             <<"p", "r", "e", "a", "m", "b", "l", "e">>),
                             format |-> OptionWritten(ppIn.written,
                                             <<"f", "o", "r", "m", "a", "t">>)])

\* a double-quoted value holding separators and a single-quoted value
\* holding escapes, both parsed
C20_Witness ==
    /\ Parsed
    /\ \E i, j \in 1..Len(ppIn.written) :
          /\ ppIn.written[i].quote = "\"" /\ \E n \in 1..Len(ppIn.written[i].value) : ppIn.written[i].value[n] = ";"
          /\ ppIn.written[j].quote = "'" /\ \E n \in 1..Len(ppIn.written[j].value) : ppIn.written[j].value[n] = "\n"
          /\ ppIn.written[i].key = <<"s", "c", "a", "l", "e">>
          /\ ppOut.r[1].scale = Some(ppIn.written[i].value)

\* ---------------------------------------------------- diagram extraction
Extracted == ppOut # <<>> /\ ppOut.op = "inject_tikz_blocks"

\* the fenced code blocks of a text that parse_tikz_fence accepts
TikzFences(text) ==
    {e \in EventSet(text) : e.tag = "CodeBlock" /\ parse_tikz_fence(e.info) # None}

\* C11: what inject_tikz_blocks returns holds no diagram fence, and
\* inject_tikz_blocks applied to it returns it unchanged.
C11_ExtractionIsIdempotent ==
    Extracted =>
        /\ TikzFences(ppOut.r) = {}
        /\ ppOut.again # <<>> => ppOut.again[1] = ppOut.r

\* extraction has run twice on a document whose diagram source holds a
\* comment terminator and a fence line
C11_Witness ==
    /\ Extracted
    /\ ppOut.again # <<>>
    /\ ppOut.r # ppIn
    /\ \E e \in TikzFences(ppIn) :
          Contains(e.content, HtmlClose) /\ Contains(e.content, FenceMark)

\* ------------------------------------------------------- the whole pass
Preprocessed == ppOut # <<>> /\ ppOut.op = "preprocess_markdown"

\* C19: every anchor preprocess_markdown returns has as its offset the byte
\* index, in the markdown the caller gave, of the start of the block it
\* marks (offset 0 for the document-start anchor), and the line and column
\* of that index.
C19_AnchorOffsetsIndexTheOriginal ==
    Preprocessed =>
        \A a \in AnchorSet :
            \/ a = Anchor(doc_id, ppIn, 0)
            \/ /\ a.offset <= Len(ppIn)
               /\ \E e \in Candidates(ppIn) : e.start = a.offset
               /\ LineText(ppIn, [s |-> a.offset, e |-> LineEnd(ppIn, a.offset)])
                    = LineText(inject_tikz_blocks(ppIn),
                               [s |-> a.offset, e |-> LineEnd(inject_tikz_blocks(ppIn), a.offset)])
               /\ <<a.line, a.column>> = offset_to_line_column(ppIn, a.offset)

\* ---------------------------------------------------- the marker of a fence
Scanned == ppOut # <<>> /\ ppOut.op = "scan_fence"

\* C21: parse_tikz_fence returns for every info string: None for an empty or
\* blank one and for a first token that is not the marker word once its
\* surrounding brackets and punctuation are cut off and its case is folded,
\* and the fence is then left as it is by the extraction; with the marker,
\* in any case, the recognised options are those written, whatever tokens
\* with another key or without '=' stand among them.
C21_NonMarkerYieldsNoneAndOtherTokensAreDropped ==
    Scanned =>
        IF ppIn.marker
        THEN ppOut.r = Some([scale |-> OptionWritten(ppIn.written, <<"s", "c", "a", "l", "e">>),
                             preamble |-> OptionWritten(ppIn.written,
                                             <<"p", "r", "e", "a", "m", "b", "l", "e">>),
                             format |-> OptionWritten(ppIn.written,
                                             <<"f", "o", "r", "m", "a", "t">>)])
        ELSE ppOut.r = None /\ ppOut.out = Fenced(ppIn.info)

\* an upper-case marker in brackets, a dropped token and a recognised option
C21_Witness ==
    /\ Scanned
    /\ ppIn.marker
    /\ Head(ppIn.info) = "["
    /\ ppIn.dropped = 1
    /\ Len(ppIn.written) = 1
    /\ ppOut.r[1].scale = Some(<<"0", ".", "7", "5">>)
    /\ ppOut.out # Fenced(ppIn.info)

\* ------------------------------------------------------------ the source map
Attached == ppOut # <<>> /\ ppOut.op = "attach_pdf_positions"

\* C22: attach_pdf_positions returns one entry for each anchor, in the
\* anchors' order, with the anchor's id and editor position; the entry of an
\* anchor whose id has a position in the query result carries it, the entry
\* of one whose id has none has its rendered position unset.
C22_OneEntryPerAnchorInOrder ==
    Attached =>
        LET entries == ppOut.payload.anchors
        IN  /\ Len(entries) = Len(ppIn.anchors)
            /\ \A i \in 1..Len(ppIn.anchors) :
                  /\ entries[i].id = ppIn.anchors[i].id
                  /\ entries[i].editor = [offset |-> ppIn.anchors[i].offset,
                                          line |-> ppIn.anchors[i].line,
                                          column |-> ppIn.anchors[i].column]
                  /\ entries[i].pdf =
                        IF ppIn.anchors[i].id \in DOMAIN ppOut.positions
                        THEN Some(ppOut.positions[ppIn.anchors[i].id]) ELSE None

\* three anchors, the second without a rendered position, and a position
\* for a label that is no anchor's
C22_Witness ==
    /\ Attached
    /\ Len(ppIn.anchors) = 3
    /\ Len(ppOut.payload.anchors) = 3
    /\ ppOut.payload.anchors[1].pdf # None
    /\ ppOut.payload.anchors[2].pdf = None
    /\ ppOut.payload.anchors[3].pdf # None
    /\ \E id \in DOMAIN ppOut.positions : \A i \in 1..3 : ppIn.anchors[i].id # id

Queried == ppOut # <<>> /\ ppOut.op = "pdf_positions_from_query"

\* C23: the positions read from the query result are, for each label, the
\* location its result gives: page and position directly or under a
\* location key, the position under position, point or pos or as the first
\* two numbers of a rect array, page 1 when no page is given, the first one
\* of the result's subtree when there are two, whether the label stands in
\* the result or under value, target, node or fields; a result with no
\* location gives its label no position.
C23_PositionsAreTheResultsLocations ==
    Queried =>
        LET located == {i \in 1..Len(ppIn.results) : ppIn.results[i].pos # None}
        IN  /\ DOMAIN ppOut.positions = {ppIn.results[i].id : i \in located}
            /\ \A i \in located : ppOut.positions[ppIn.results[i].id] = ppIn.results[i].pos[1]

\* a label under a wrapper key with a rect location, next to a result
\* without a page
C23_Witness ==
    /\ Queried
    /\ \E i, j \in 1..Len(ppIn.results) :
          /\ ppIn.results[i].place = "fields" /\ ppIn.results[i].shape = "rect"
          /\ ppIn.results[j].shape = "nopage"
          /\ ppOut.positions[ppIn.results[i].id].x = 10 * (i + 1)
          /\ ppOut.positions[ppIn.results[j].id].page = 1

\* ------------------------------------------------------------ the export lock
InBody(p) == pc[p] \notin {"idle", "locking", "exit"} \/ (pc[p] = "exit" /\ lock = p)

\* C24: at most one invocation of export_as_image is in the body at a time
\* and it holds the lock; the lock is held only by an invocation that has
\* not returned; and an invocation that returns an error from any step of
\* the body releases the lock, so that the lock is free again afterwards.
C24_ExportsAreSerializedAndLockIsReleased ==
    /\ [](\A p, q \in Procs : (InBody(p) /\ InBody(q)) => p = q)
    /\ [](\A p \in Procs : InBody(p) => lock = p)
    /\ [](lock # 0 => pc[lock] \notin {"idle", "locking"})
    /\ \A p \in Procs :
          (pc[p] = "exit" /\ lock = p /\ result[p] # "ok") ~> (lock # p)

\* the second invocation is in the body after the first returned an error
\* from prepare_tikz_assets
C24_Witness ==
    /\ pc[1] = "idle" /\ result[1] = "assets_err"
    /\ pc[2] = "typst" /\ lock = 2

\* ------------------------------------------------------ the replaced spans
\* the diagram fences of a text in document order
FenceSpans(text) ==
    SelectSeq(Events(text),
              LAMBDA e : e.tag = "CodeBlock" /\ parse_tikz_fence(e.info) # None)

Directive(e) == build_tikz_placeholder(e.content, parse_tikz_fence(e.info)[1])

\* the text from offset from on, each span taken out and its directive put
\* in its place, the spans taken from the first to the last
RECURSIVE Respan(_, _, _)
Respan(text, from, spans) ==
    IF spans = <<>> THEN Slice(text, from, Len(text))
    ELSE Slice(text, from, Head(spans).start) \o Directive(Head(spans))
         \o Respan(text, Head(spans).end, Tail(spans))

RECURSIVE SpanGrowth(_)
SpanGrowth(spans) ==
    IF spans = <<>> THEN 0
    ELSE Len(Directive(Head(spans))) - (Head(spans).end - Head(spans).start)
         + SpanGrowth(Tail(spans))

\* C25: the spans of the diagram fences are in ascending order and disjoint;
\* the output is the input with each span replaced by one directive and
\* every byte outside the spans kept in place and order; a directive names
\* an option exactly when the fence gives it; the output's length is the
\* input's less the spans plus the directives.
C25_SpansReplacedOutsideKept ==
    Extracted =>
        LET spans == FenceSpans(ppIn)
        IN  /\ \A i \in 1..Len(spans) :
                  /\ spans[i].start < spans[i].end /\ spans[i].end <= Len(ppIn)
                  /\ i < Len(spans) => spans[i].end <= spans[i + 1].start
            /\ ppOut.r = Respan(ppIn, 0, spans)
            /\ Len(ppOut.r) = Len(ppIn) + SpanGrowth(spans)
            /\ \A i \in 1..Len(spans) :
                  LET d == Directive(spans[i])
                  IN  /\ StartsWith(d, <<"<", "!", "-", "-", "r", "a", "w", "-", "t", "y",
                                         "p", "s", "t", " ", "#", "t", "i", "k", "z", "_",
                                         "r", "e", "n", "d", "e", "r", "(", "d", "i", "a",
                                         "g", "r", "a", "m", ":", " ", "\"">>)
                      /\ EndsWith(d, <<")", " ", "-", "-", ">", "\n">>)
                      /\ Contains(d, <<",", " ", "s", "c", "a", "l", "e", ":", " ">>)
                            <=> Contains(spans[i].info, <<"s", "c", "a", "l", "e", "=">>)
                      /\ Contains(d, <<",", " ", "f", "o", "r", "m", "a", "t", ":", " ">>)
                            <=> Contains(spans[i].info, <<"f", "o", "r", "m", "a", "t", "=">>)
                      /\ Contains(d, <<",", " ", "p", "r", "e", "a", "m", "b", "l", "e", ":",
                              " ">>)
                            <=> Contains(spans[i].info, <<"p", "r", "e", "a", "m", "b", "l",
                                    "e", "=">>)

\* a document with a paragraph between two diagram fences, one of them
\* with options
C25_Witness ==
    /\ Extracted
    /\ LET spans == FenceSpans(ppIn)
       IN  /\ Len(spans) = 2
           /\ spans[2].start - spans[1].end >= 5
           /\ \E i \in 1..2 : Contains(spans[i].info, <<"s", "c", "a", "l", "e", "=">>)
           /\ Len(ppOut.r) # Len(ppIn)

\* ------------------------------------------------------ the diagram cache
Cached(f) == cache[f] \in {Artifact("doc", f[1]), Artifact("err", f[1])}

\* C26: a cache file that holds the real or the fallback artifact never
\* changes again; a block whose cache file holds one is not sent to the
\* compiler; and the copy of a block that found the fallback artifact in the
\* cache puts that artifact at the block's output path.
C26_CachedAndFallbackCachedAreTerminal ==
    /\ [][\A f \in CacheFiles : Cached(f) => cache'[f] = cache[f]]_vars
    /\ [](\A p \in Procs : pc[p] \in {"tex", "stale", "spawn", "wait", "read",
                                      "cleanup", "raster"}
                              => ~Cached(cache_file(p)))
    /\ [][\A p \in Procs :
            (pc[p] = "copy" /\ pc'[p] = "check" /\ cache[cache_file(p)] # NoFile)
                => outdir'[dest_path(p)] = cache[cache_file(p)]]_vars

\* a later run resolves a block from the fallback artifact an earlier run
\* stored: no compile failed in this resolve and the file was written once
C26_Witness ==
    \E p \in Procs :
        /\ pc[p] = "copy" /\ runs = 2
        /\ ~failed[p]
        /\ cache[cache_file(p)] = Artifact("err", key(p))
        /\ writes[cache_file(p)] = 1

C28_DigestInputIsUnambiguous ==
    (keyOut # <<>> /\ <<keyIn[1].diagram, keyIn[1].preamble>>
                        # <<keyIn[2].diagram, keyIn[2].preamble>>)
        => /\ hasher_input(keyIn[1]) # hasher_input(keyIn[2])
           /\ keyOut[1] # keyOut[2]
           /\ keyIn[1].asset_extension = keyIn[2].asset_extension
                 => file_of(keyIn[1]) # file_of(keyIn[2])

\* ------------------------------------------------------ the embed directive
Occurrences(s, pat) ==
    Cardinality({i \in 1..(Len(s) - Len(pat) + 1) : SubSeq(s, i, i + Len(pat) - 1) = pat})

\* C29: the directive put in the place of a diagram fence is one line with
\* no line break, carriage return or tab in it, and the comment terminator
\* occurs in it once, at its end, whatever the diagram source holds.
C29_DirectiveClosesOnlyAtItsEnd ==
    Extracted =>
        \A i \in 1..Len(FenceSpans(ppIn)) :
            LET d == Directive(FenceSpans(ppIn)[i])
                line == SubSeq(d, 1, Len(d) - 1)
            IN  /\ d[Len(d)] = "\n"
                /\ \A n \in 1..Len(line) : line[n] \notin {"\n", "\r", "\t"}
                /\ EndsWith(line, HtmlClose)
                /\ Occurrences(line, HtmlClose) = 1

\* ------------------------------------------------------ the failure message
\* C30: truncate_message returns for every message: the trimmed message
\* with its line breaks turned into spaces when that is at most MAX_LEN
\* bytes long, its first MAX_LEN bytes and the truncation marker otherwise.
C30_TruncateReturnsForEveryMessage ==
    (ppOut # <<>> /\ ppOut.op = "truncate_message") =>
        LET t == trim(ppIn)
            flat == [i \in 1..Len(t) |-> IF t[i] = "\n" THEN " " ELSE t[i]]
        IN  /\ ~ppOut.r.panicked
            /\ ppOut.r.value = IF Len(flat) <= MAX_LEN THEN flat
                               ELSE SubSeq(flat, 1, MAX_LEN) \o <<"E2", "80", "A6">>

====
